---- MODULE Spec2Model ----
(***************************************************************************)
(* AetherBridge: account pool (crates/oauth/src/accounts.rs), the          *)
(* /v1/messages and /v1/chat/completions request handlers                  *)
(* (crates/api-server/src/routes.rs) and session repair                    *)
(* (crates/api-server/src/session_recovery.rs).                            *)
(*                                                                         *)
(* The specifications share one module:                                    *)
(*   SpecPool    the AccountManager operations called in any order         *)
(*   SpecReq     one request through a handler, against the pool           *)
(*   SpecReqLive the streaming handler under fair scheduling               *)
(*   SpecRepair  recover_session applied to bounded conversations          *)
(*   SpecTools   tool conversion and the request body                      *)
(*   SpecAdmin   add_account, remove_account, reload                       *)
(*   SpecSse     the client's parsing of the upstream byte stream          *)
(*   SpecTasks   two concurrent lease calls                                *)
(*   SpecLedger  the ledger under additions and removals of accounts       *)
(*   SpecClient  AntigravityClient: headers, endpoints, status handling    *)
(*   SpecLocks   lock acquisition of concurrent AccountManager calls       *)
(* Time is in seconds.  Option<T> is a set with at most one element.       *)
(***************************************************************************)
EXTENDS Integers, Sequences, FiniteSets, TLC

VARIABLES
    accounts,         \* AccountManager.accounts: Vec<Account>, 0-based positions
    rate_limits,      \* AccountManager.rate_limits: HashMap<usize, AccountRateLimits>
    last_used_index,  \* AccountManager.last_used_index
    now,              \* Utc::now(), seconds
    lease,            \* what the most recent AccountManager call returned
    req,              \* the request payload being handled
    pc,               \* position of the handler
    hs,               \* the handler's local variables
    events,           \* SSE events emitted so far by messages_streaming
    calls,            \* upstream requests issued so far by the handler
    pool_calls,       \* AccountManager calls made so far by the handler
    response,         \* the HTTP response of a non-streaming handler
    msgs,             \* input of recover_session
    rec1,             \* recover_session(msgs)
    rec2,             \* recover_session(rec1.messages)
    rpc,              \* position of the repair run
    input_schema,     \* the input_schema of the tool in the client's payload
    parameters,       \* the tool's parameters schema as translated so far
    tpc,              \* position of the tool translation
    storage,          \* the Token Store behind the AccountManager, if it has one
    admin,            \* the last add_account / remove_account / reload call
    byte_stream,      \* what is left of the upstream SSE body, in the pieces it arrives in
    line_buffer,      \* chat_completion_stream: the bytes read and not yet consumed
    lines_read,       \* the lines taken out of line_buffer so far
    output_stream,    \* the items the client's chunk stream has yielded so far
    spc,              \* position of the chunk stream
    accounts_lock,    \* the task holding the write lock of AccountManager.accounts
    tasks,            \* the concurrent lease calls: each task's position and locals
    refresh_log,      \* the refresh requests sent to the token endpoint so far
    http_client,      \* the AntigravityClient of a call, if one was constructed
    requests,         \* the HTTP requests the client has sent, each with its response
    cresult,          \* what chat_completion_stream returned, if it has returned
    rate_limits_lock, \* RwLock of AccountManager.rate_limits: its writer and readers
    accounts_readers  \* the tasks holding a read lock of AccountManager.accounts

poolVars == <<accounts, rate_limits, last_used_index, now>>
reqVars == <<req, pc, hs, events, calls, pool_calls, response>>
repairVars == <<msgs, rec1, rec2, rpc>>
toolVars == <<input_schema, parameters, tpc>>
adminVars == <<storage, admin>>
sseVars == <<byte_stream, line_buffer, lines_read, output_stream, spc>>
taskVars == <<accounts_lock, tasks, refresh_log>>
clientVars == <<http_client, requests, cresult>>
lockVars == <<rate_limits_lock, accounts_readers>>
vars == <<accounts, rate_limits, last_used_index, now, lease, req, pc, hs,
          events, calls, pool_calls, response, msgs, rec1, rec2, rpc,
          input_schema, parameters, tpc, storage, admin,
          byte_stream, line_buffer, lines_read, output_stream, spc,
          accounts_lock, tasks, refresh_log, http_client, requests, cresult,
          rate_limits_lock, accounts_readers>>

(***************************************************************************)
(* Bounds of the model                                                     *)
(***************************************************************************)
NumAccounts == 2
MaxTicks == 1
MaxMarks == 2

None == {}
Some(x) == {x}
IsSome(o) == o # {}
Unwrap(o) == CHOOSE x \in o : TRUE

(***************************************************************************)
(* Model identifiers.  The code only ever asks whether an id contains a    *)
(* keyword, so an id is modelled by the keywords it contains.              *)
(***************************************************************************)
Keywords ==
    ("gemini-3-pro" :> {"gemini", "gemini-3-pro"}) @@
    ("gemini-3-flash" :> {"gemini", "flash", "gemini-3-flash"}) @@
    ("claude-sonnet-4-5" :> {"claude", "sonnet"}) @@
    ("claude-sonnet-4-5-thinking" :> {"claude", "sonnet", "think", "thinking"}) @@
    ("claude-opus-4-5-thinking" :> {"claude", "opus", "think", "thinking"}) @@
    ("claude-3-5-sonnet-20241022" :> {"claude", "sonnet"}) @@
    ("claude-3-haiku" :> {"claude", "haiku"}) @@
    ("gpt-4" :> {}) @@
    ("antigravity-claude-sonnet-4-5" :> {"antigravity-", "claude", "sonnet"}) @@
    ("antigravity-gemini-3-pro" :> {"antigravity-", "gemini", "gemini-3-pro"}) @@
    ("antigravity-unknown" :> {"antigravity-"})

contains(id, kw) == kw \in Keywords[id]

Claude == "Claude"
Gemini == "Gemini"
ModelFamily == {Claude, Gemini}

from_model_id(model_id) ==
    IF contains(model_id, "claude") THEN Claude ELSE Gemini

(***************************************************************************)
(* Account and the rate-limit ledger                                       *)
(***************************************************************************)
RefreshBufferSecs == 300

needs_refresh(account, t) == t + RefreshBufferSecs >= account.expires_at

NewAccountRateLimits == [claude |-> None, gemini |-> None]

get(account_limits, family) ==
    IF family = Claude THEN account_limits.claude ELSE account_limits.gemini

set(account_limits, family, info) ==
    IF family = Claude
    THEN [account_limits EXCEPT !.claude = Some(info)]
    ELSE [account_limits EXCEPT !.gemini = Some(info)]

clear(account_limits, family) ==
    IF family = Claude
    THEN [account_limits EXCEPT !.claude = None]
    ELSE [account_limits EXCEPT !.gemini = None]

\* Mutant of is_rate_limited: looks up the entry of the other family.
is_rate_limited_other_family(account_limits, family, t) ==
    LET other == IF family = Claude THEN Gemini ELSE Claude
    IN  IsSome(get(account_limits, other)) /\ t < Unwrap(get(account_limits, other)).until

is_rate_limited(account_limits, family, t) ==
    IsSome(get(account_limits, family)) /\ t < Unwrap(get(account_limits, family)).until

acct(accs, idx) == accs[idx + 1]

(***************************************************************************)
(* refresh_access_token: the token endpoint's answer is an input.          *)
(***************************************************************************)
ExpiresInShort == 300
ExpiresInLong == 3600
RefreshErr == [ok |-> FALSE, expires_in |-> 0, rotated |-> FALSE]
RefreshOutcomes ==
    {RefreshErr,
     [ok |-> TRUE, expires_in |-> ExpiresInShort, rotated |-> FALSE],
     [ok |-> TRUE, expires_in |-> ExpiresInLong, rotated |-> FALSE],
     [ok |-> TRUE, expires_in |-> ExpiresInLong, rotated |-> TRUE]}

refresh_access_token(account, outcome, t) ==
    [access_token |-> "at_new",
     refresh_token |-> IF outcome.rotated THEN "rt_new" ELSE account.refresh_token,
     expires_at |-> t + outcome.expires_in]

apply_refresh(account, new_tokens) ==
    [account EXCEPT !.access_token = new_tokens.access_token,
                    !.expires_at = new_tokens.expires_at,
                    !.refresh_token = new_tokens.refresh_token]

(***************************************************************************)
(* The three lease operations share one scan: starting after               *)
(* last_used_index, the first account that is not skipped for its ledger   *)
(* entry and whose token is fresh or refreshes successfully.  outcomes[i]  *)
(* is the token endpoint's answer for account i, should it be asked.       *)
(***************************************************************************)
\* Mutant of scan_index: the scan starts at the first account of the pool.
scan_index_from_start(last_used, offset, account_count) == offset % account_count

scan_index(last_used, offset, account_count) == (last_used + offset + 1) % account_count

usable(idx, skipped, outcomes) ==
    /\ idx \notin skipped
    /\ (needs_refresh(acct(accounts, idx), now) => outcomes[idx].ok)

scan(skipped, outcomes) ==
    LET n == Len(accounts)
        hits == {off \in 0 .. n - 1 :
                    usable(scan_index(last_used_index, off, n), skipped, outcomes)}
    IN  IF n = 0 \/ hits = {} THEN None
        ELSE LET first == CHOOSE off \in hits : \A o \in hits : off <= o
             IN  Some(scan_index(last_used_index, first, n))

\* The account as returned (and as left in the pool) by a successful scan.
leased_account(idx, outcomes) ==
    LET account == acct(accounts, idx)
    IN  IF needs_refresh(account, now)
        THEN apply_refresh(account, refresh_access_token(account, outcomes[idx], now))
        ELSE account

\* The effect of a lease on the pool, and its return value.
lease_effect(skipped, outcomes) ==
    LET hit == scan(skipped, outcomes)
    IN  IF hit = None
        THEN [accounts |-> accounts, last_used_index |-> last_used_index, ret |-> None]
        ELSE LET idx == Unwrap(hit)
                 account == leased_account(idx, outcomes)
             IN  [accounts |-> [accounts EXCEPT ![idx + 1] = account],
                  last_used_index |-> idx,
                  ret |-> Some(account)]

limited_for(family) ==
    {idx \in DOMAIN rate_limits : is_rate_limited(rate_limits[idx], family, now)}

limited_for_any ==
    {idx \in DOMAIN rate_limits :
        is_rate_limited(rate_limits[idx], Claude, now)
        \/ is_rate_limited(rate_limits[idx], Gemini, now)}

get_available_account_for_model(model_id, outcomes) ==
    lease_effect(limited_for(from_model_id(model_id)), outcomes)

get_available_account(outcomes) == lease_effect(limited_for_any, outcomes)

get_available_account_ignoring_rate_limit(outcomes) == lease_effect({}, outcomes)

\* Mutant of mark_rate_limited: an entry that ends later is kept.
mark_rate_limited_keep_later(index, family, until) ==
    LET account_limits == IF index \in DOMAIN rate_limits
                          THEN rate_limits[index] ELSE NewAccountRateLimits
        previous == get(account_limits, family)
        info == [until |-> IF IsSome(previous) /\ Unwrap(previous).until > until
                           THEN Unwrap(previous).until ELSE until,
                 consecutive_count |->
                     IF IsSome(previous) THEN Unwrap(previous).consecutive_count + 1 ELSE 1]
    IN  [idx \in DOMAIN rate_limits \cup {index} |->
            IF idx = index THEN set(account_limits, family, info) ELSE rate_limits[idx]]

mark_rate_limited(index, family, until) ==
    LET account_limits == IF index \in DOMAIN rate_limits
                          THEN rate_limits[index] ELSE NewAccountRateLimits
        current_count == IF IsSome(get(account_limits, family))
                         THEN Unwrap(get(account_limits, family)).consecutive_count
                         ELSE 0
        info == [until |-> until, consecutive_count |-> current_count + 1]
    IN  [idx \in DOMAIN rate_limits \cup {index} |->
            IF idx = index THEN set(account_limits, family, info) ELSE rate_limits[idx]]

\* Mutant of clear_rate_limit: the outer entry is never removed.
clear_rate_limit_keep_outer(index, family) ==
    IF index \notin DOMAIN rate_limits THEN rate_limits
    ELSE [rate_limits EXCEPT ![index] = clear(rate_limits[index], family)]

clear_rate_limit(index, family) ==
    IF index \notin DOMAIN rate_limits THEN rate_limits
    ELSE LET cleared == clear(rate_limits[index], family)
         IN  IF cleared.claude = None /\ cleared.gemini = None
             THEN [idx \in DOMAIN rate_limits \ {index} |-> rate_limits[idx]]
             ELSE [rate_limits EXCEPT ![index] = cleared]

SetMin(S) == CHOOSE x \in S : \A y \in S : x <= y

get_min_wait_time_for_model(model_id) ==
    LET family == from_model_id(model_id)
        any_available ==
            \E p \in 1 .. Len(accounts) :
                LET a == accounts[p]
                IN  IF a.index \in DOMAIN rate_limits
                    THEN ~is_rate_limited(rate_limits[a.index], family, now)
                    ELSE TRUE
        waits == {Unwrap(get(rate_limits[idx], family)).until - now :
                    idx \in {i \in DOMAIN rate_limits :
                                /\ IsSome(get(rate_limits[i], family))
                                /\ Unwrap(get(rate_limits[i], family)).until > now}}
    IN  IF any_available \/ waits = {} THEN None ELSE Some(SetMin(waits))

(***************************************************************************)
(* SpecPool: the AccountManager after new(), its operations in any order.  *)
(***************************************************************************)
StartNow == 3600

\* load_accounts_from_storage: a refreshed account, or an expired one.
LoadedAccount(idx, refreshed) ==
    [index |-> idx,
     email |-> idx,
     access_token |-> IF refreshed THEN "at_old" ELSE "",
     expires_at |-> IF refreshed THEN StartNow + ExpiresInLong ELSE StartNow - 3600,
     refresh_token |-> "rt_old"]

LoadedPools ==
    {[p \in 1 .. NumAccounts |-> LoadedAccount(p - 1, r[p])] :
        r \in [1 .. NumAccounts -> BOOLEAN]}

NoLease == [op |-> "none", family |-> Gemini, ret |-> None]

ReqIdle ==
    /\ req = [endpoint |-> "none"]
    /\ pc = "idle"
    /\ hs = [model |-> "none"]
    /\ events = <<>>
    /\ calls = <<>>
    /\ pool_calls = <<>>
    /\ response = None

RepairIdle ==
    /\ msgs = <<>>
    /\ rec1 = None
    /\ rec2 = None
    /\ rpc = "idle"

ToolsIdle ==
    /\ input_schema = None
    /\ parameters = None
    /\ tpc = "idle"

NoAdmin ==
    [op |-> "none", email |-> -1, refresh_token |-> "", ok |-> TRUE, ret |-> FALSE]

AdminIdle ==
    /\ storage = None
    /\ admin = NoAdmin

SseIdle ==
    /\ byte_stream = << >>
    /\ line_buffer = << >>
    /\ lines_read = << >>
    /\ output_stream = << >>
    /\ spc = "idle"

TasksIdle ==
    /\ accounts_lock = None
    /\ tasks = << >>
    /\ refresh_log = << >>

ClientIdle ==
    /\ http_client = None
    /\ requests = << >>
    /\ cresult = None

LocksIdle ==
    /\ rate_limits_lock = [writer |-> None, readers |-> {}]
    /\ accounts_readers = {}

\* The Token Store the pool was loaded from: one record per account, in
\* pool order (load_accounts_from_storage keeps the stored order).
StoredFor(accs, active_index) ==
    [accounts |-> [p \in 1 .. Len(accs) |->
                      [email |-> accs[p].email, refresh_token |-> "rt_old"]],
     active_index |-> active_index]

PoolInit ==
    /\ accounts \in LoadedPools \cup {<< >>}
    /\ rate_limits = << >>
    /\ last_used_index \in 0 .. NumAccounts - 1
    /\ now = StartNow
    /\ lease = NoLease
    /\ storage = Some(StoredFor(accounts, last_used_index))
    /\ admin = NoAdmin
    /\ ReqIdle
    /\ RepairIdle
    /\ ToolsIdle
    /\ SseIdle
    /\ TasksIdle
    /\ ClientIdle
    /\ LocksIdle

PoolModelIds == {"claude-sonnet-4-5", "gemini-3-pro"}
MarkSecs == {60}
TickSecs == 61
MaxNow == StartNow + MaxTicks * TickSecs

\* The token endpoint is asked only for accounts whose token needs a refresh.
OutcomeMaps ==
    {o \in [0 .. Len(accounts) - 1 -> RefreshOutcomes] :
        \A i \in 0 .. Len(accounts) - 1 :
            ~needs_refresh(acct(accounts, i), now) => o[i] = RefreshErr}

PoolLeaseForModel ==
    /\ \E model_id \in PoolModelIds, outcomes \in OutcomeMaps :
           LET r == get_available_account_for_model(model_id, outcomes)
           IN  /\ accounts' = r.accounts
               /\ last_used_index' = r.last_used_index
               /\ lease' = [op |-> "for_model", family |-> from_model_id(model_id),
                            ret |-> r.ret]
               /\ UNCHANGED <<rate_limits, now>>
    /\ UNCHANGED <<reqVars, repairVars, toolVars, adminVars, sseVars, taskVars, clientVars, lockVars>>

PoolLease ==
    /\ \E outcomes \in OutcomeMaps :
           LET r == get_available_account(outcomes)
           IN  /\ accounts' = r.accounts
               /\ last_used_index' = r.last_used_index
               /\ lease' = [op |-> "any", family |-> Gemini, ret |-> r.ret]
               /\ UNCHANGED <<rate_limits, now>>
    /\ UNCHANGED <<reqVars, repairVars, toolVars, adminVars, sseVars, taskVars, clientVars, lockVars>>

PoolLeaseIgnoring ==
    /\ \E outcomes \in OutcomeMaps :
           LET r == get_available_account_ignoring_rate_limit(outcomes)
           IN  /\ accounts' = r.accounts
               /\ last_used_index' = r.last_used_index
               /\ lease' = [op |-> "ignoring", family |-> Gemini, ret |-> r.ret]
               /\ UNCHANGED <<rate_limits, now>>
    /\ UNCHANGED <<reqVars, repairVars, toolVars, adminVars, sseVars, taskVars, clientVars, lockVars>>

CountOf(index, family) ==
    IF index \in DOMAIN rate_limits /\ IsSome(get(rate_limits[index], family))
    THEN Unwrap(get(rate_limits[index], family)).consecutive_count
    ELSE 0

\* Marks held in the ledger, over all accounts and families.
RECURSIVE MarksHeld(_)
MarksHeld(indices) ==
    IF indices = {} THEN 0
    ELSE LET i == CHOOSE x \in indices : TRUE
         IN  CountOf(i, Claude) + CountOf(i, Gemini) + MarksHeld(indices \ {i})

PoolMark ==
    /\ \E index \in 0 .. NumAccounts - 1, family \in ModelFamily, secs \in MarkSecs :
           /\ MarksHeld(DOMAIN rate_limits) < MaxMarks
           /\ rate_limits' = mark_rate_limited(index, family, now + secs)
           /\ lease' = NoLease
           /\ UNCHANGED <<accounts, last_used_index, now>>
    /\ UNCHANGED <<reqVars, repairVars, toolVars, adminVars, sseVars, taskVars, clientVars, lockVars>>

PoolClear ==
    /\ \E index \in 0 .. NumAccounts - 1, family \in ModelFamily :
           /\ rate_limits' = clear_rate_limit(index, family)
           /\ lease' = NoLease
           /\ UNCHANGED <<accounts, last_used_index, now>>
    /\ UNCHANGED <<reqVars, repairVars, toolVars, adminVars, sseVars, taskVars, clientVars, lockVars>>

Tick ==
    /\ now + TickSecs <= MaxNow
    /\ now' = now + TickSecs
    /\ lease' = NoLease
    /\ UNCHANGED <<accounts, rate_limits, last_used_index>>
    /\ UNCHANGED <<reqVars, repairVars, toolVars, adminVars, sseVars, taskVars, clientVars, lockVars>>

PoolNext ==
    \/ PoolLeaseForModel
    \/ PoolLease
    \/ PoolLeaseIgnoring
    \/ PoolMark
    \/ PoolClear
    \/ Tick

SpecPool == PoolInit /\ [][PoolNext]_vars

(***************************************************************************)
(* AntigravityModel (browser-automator/src/antigravity.rs) and the model   *)
(* mapping of the handlers (api-server/src/routes.rs).                     *)
(***************************************************************************)
AntigravityModel ==
    {"Gemini3Pro", "Gemini3Flash", "ClaudeSonnet45", "ClaudeSonnet45Thinking",
     "ClaudeOpus45Thinking"}

api_id(model) ==
    CASE model = "Gemini3Pro" -> "gemini-3-pro"
      [] model = "Gemini3Flash" -> "gemini-3-flash"
      [] model = "ClaudeSonnet45" -> "claude-sonnet-4-5"
      [] model = "ClaudeSonnet45Thinking" -> "claude-sonnet-4-5-thinking"
      [] model = "ClaudeOpus45Thinking" -> "claude-opus-4-5-thinking"

is_claude(model) ==
    model \in {"ClaudeSonnet45", "ClaudeSonnet45Thinking", "ClaudeOpus45Thinking"}

is_gemini(model) == ~is_claude(model)

from_str(s) ==
    IF contains(s, "opus") /\ contains(s, "thinking") THEN Some("ClaudeOpus45Thinking")
    ELSE IF contains(s, "sonnet") /\ contains(s, "thinking")
    THEN Some("ClaudeSonnet45Thinking")
    ELSE IF contains(s, "sonnet") THEN Some("ClaudeSonnet45")
    ELSE IF contains(s, "gemini-3-pro") THEN Some("Gemini3Pro")
    ELSE IF contains(s, "gemini-3-flash") THEN Some("Gemini3Flash")
    ELSE None

map_anthropic_to_antigravity(model_id) ==
    IF contains(model_id, "opus") THEN "ClaudeOpus45Thinking"
    ELSE IF contains(model_id, "sonnet")
    THEN (IF contains(model_id, "think") THEN "ClaudeSonnet45Thinking"
          ELSE "ClaudeSonnet45")
    ELSE IF contains(model_id, "haiku") THEN "Gemini3Flash"
    ELSE IF contains(model_id, "gemini")
    THEN (IF contains(model_id, "flash") THEN "Gemini3Flash" ELSE "Gemini3Pro")
    ELSE "ClaudeSonnet45"

get_spoof_model(model) ==
    CASE model = "ClaudeOpus45Thinking" -> Some("Gemini3Pro")
      [] model \in {"ClaudeSonnet45Thinking", "ClaudeSonnet45"} -> Some("Gemini3Flash")
      [] OTHER -> None

\* Mutant of family_of: every model counts as a Gemini model.
family_of_gemini(model) == Gemini

family_of(model) == from_model_id(api_id(model))

(***************************************************************************)
(* Upstream answers (chat_completion / chat_completion_stream).  The       *)
(* client turns a non-success HTTP response into an error string; the      *)
(* string is modelled by what the handlers read from it: the prefix, the   *)
(* seconds field, whether the text holds the digits 429/503/529 and the    *)
(* message text the upstream reported.  The record also keeps the status   *)
(* and the retry-after header of the response the string was built from.   *)
(***************************************************************************)
UpstreamOk ==
    [ok |-> TRUE, status |-> 200, retry_after |-> None, prefix |-> "", secs |-> 0,
     digits |-> FALSE, text |-> ""]

\* chat_completion_stream on a response whose status is not a success
UpstreamErr(status, retry_after, digits, text) ==
    LET extract_retry_from_error == IF text = "Retry after 30s" THEN Some(30) ELSE None
        fallback(default) == IF IsSome(retry_after) THEN Unwrap(retry_after) ELSE default
    IN  [ok |-> FALSE, status |-> status, retry_after |-> retry_after,
         prefix |-> IF status = 429 THEN "RATE_LIMITED"
                    ELSE IF status \in {503, 529} THEN "CAPACITY_ERROR"
                    ELSE "API error",
         secs |-> IF status = 429
                  THEN fallback(IF IsSome(extract_retry_from_error)
                                THEN Unwrap(extract_retry_from_error) ELSE 60)
                  ELSE IF status \in {503, 529} THEN fallback(45)
                  ELSE 0,
         digits |-> digits, text |-> text]

RetryAfterSecs == 20
LongRetryAfterSecs == 50

UpstreamErrors ==
    {UpstreamErr(429, Some(RetryAfterSecs), FALSE, "Rate limit exceeded"),
     UpstreamErr(529, Some(RetryAfterSecs), FALSE, "Rate limit exceeded"),
     UpstreamErr(400, None, FALSE, "Invalid API key"),
     UpstreamErr(400, None, TRUE, "Invalid API key"),
     UpstreamErr(400, None, FALSE, "Expected thinking but found text")}

UpstreamOutcomes == {UpstreamOk} \cup UpstreamErrors

\* The answers to the first upstream call of a request: also a retry-after
\* header of 0 or above the floor, and responses without the header.
PrimaryOutcomes ==
    UpstreamOutcomes
    \cup {UpstreamErr(529, Some(0), FALSE, "Rate limit exceeded"),
          UpstreamErr(503, Some(LongRetryAfterSecs), FALSE, "Rate limit exceeded"),
          UpstreamErr(503, None, FALSE, "Rate limit exceeded"),
          UpstreamErr(429, Some(0), FALSE, "Rate limit exceeded"),
          UpstreamErr(429, None, FALSE, "Rate limit exceeded"),
          UpstreamErr(429, None, FALSE, "Retry after 30s")}

\* str::to_lowercase on the message texts of the model
to_lowercase(text) ==
    CASE text = "Expected thinking but found text" -> "expected thinking but found text"
      [] text = "Invalid API key" -> "invalid api key"
      [] text = "Rate limit exceeded" -> "rate limit exceeded"
      [] OTHER -> text

\* The message text of an error is the phrase the upstream reported; a text
\* contains a pattern when it is that phrase.
is_recoverable_error(e) ==
    LET recoverable_patterns ==
            {"tool_use without tool_result", "tool result missing",
             "expected thinking but found text", "thinking block out of order",
             "invalid thinking signature"}
        lower_error == to_lowercase(e.text)
    IN  \E pattern \in recoverable_patterns : lower_error = pattern

is_rate_or_capacity(e) == e.prefix \in {"RATE_LIMITED", "CAPACITY_ERROR"}

DefaultRetrySecs == 60
CapacityFloorSecs == 45
WaitCapSecs == 600

Max(a, b) == IF a >= b THEN a ELSE b

seconds_of(e) == IF is_rate_or_capacity(e) THEN e.secs ELSE DefaultRetrySecs

effective_seconds_no_floor(e) == seconds_of(e)

effective_seconds(e) ==
    IF e.prefix = "CAPACITY_ERROR" THEN Max(seconds_of(e), CapacityFloorSecs)
    ELSE seconds_of(e)

(***************************************************************************)
(* The handler's bookkeeping                                               *)
(***************************************************************************)
\* An SSE event: its type, its block index, the type of its content block or
\* delta (or its stop_reason), and the JSON text it carries where the model
\* follows it (the content_block of a tool_use start, the partial_json).
Ev(type, index, info) == [type |-> type, index |-> index, info |-> info, data |-> << >>]

PoolCall(op, index, family) == [op |-> op, index |-> index, family |-> family]

\* AntigravityClient::new: the HTTP client carries the default headers of the
\* primary style; header_style and endpoint_index start at their defaults.
AntigravityClient_new ==
    [client |-> "antigravity", header_style |-> "antigravity", endpoint_index |-> 0]

\* rebuild_client_with_style builds a reqwest client with the headers of the
\* style and drops it at the end of the function: self.client is not assigned.
rebuild_client_with_style(c, style) ==
    LET new_client == style
    IN  c

switch_to_gemini_cli_headers(c) ==
    IF c.header_style = "gemini-cli" THEN c
    ELSE rebuild_client_with_style([c EXCEPT !.header_style = "gemini-cli"], "gemini-cli")

\* self.client.post(url): a request carries the default headers of self.client.
request_headers(c) == c.client

\* An upstream call: style is the header style the handler selected for the
\* client, headers are the fingerprint headers the request carries.
Call(account, model, style, result) ==
    [account |-> account.index, access_token |-> account.access_token,
     model |-> model, style |-> style,
     headers |-> request_headers(IF style = "gemini-cli"
                                 THEN switch_to_gemini_cli_headers(AntigravityClient_new)
                                 ELSE AntigravityClient_new),
     result |-> result]

HsInit(model) ==
    [model |-> model,
     original_model |-> model,
     used_fallback |-> FALSE,
     account |-> None,
     error |-> None,
     api_result |-> None,
     block_index |-> 0,
     status_block_open |-> FALSE,
     text_index |-> 0,
     fallback_status_index |-> 0,
     inside_thought |-> FALSE,
     has_tool_use |-> FALSE,
     chunks |-> 0,
     seen |-> << >>]

\* (StatusCode, Json(body)).into_response(): the handlers set no header of
\* their own on a response.
Resp(status, type) == Some([status |-> status, type |-> type, headers |-> {}])

(***************************************************************************)
(* SpecReq: one request through a handler.  Before the request arrives     *)
(* the ledger holds whatever earlier requests marked.                      *)
(***************************************************************************)
EarlierMarkSecs == {30, 700}

MessagesModelIds == {"claude-3-5-sonnet-20241022", "claude-opus-4-5-thinking", "gemini-3-pro",
                     "claude-3-haiku", "gpt-4"}
StreamingModelIds == {"claude-3-5-sonnet-20241022", "gemini-3-pro"}
ChatModelIds == {"antigravity-claude-sonnet-4-5", "antigravity-gemini-3-pro",
                 "antigravity-unknown"}

Requests ==
    {[endpoint |-> "messages", model |-> m, stream |-> FALSE] : m \in MessagesModelIds}
    \cup {[endpoint |-> "messages", model |-> m, stream |-> TRUE] : m \in StreamingModelIds}
    \cup {[endpoint |-> "chat_completions", model |-> m, stream |-> FALSE] :
             m \in ChatModelIds}

\* In a request the token endpoint fails or issues a one-hour token.
ReqRefreshOutcomes ==
    {RefreshErr, [ok |-> TRUE, expires_in |-> ExpiresInLong, rotated |-> FALSE]}

ReqOutcomeMaps == {o \in OutcomeMaps : \A i \in DOMAIN o : o[i] \in ReqRefreshOutcomes}

ReqInit ==
    /\ accounts \in LoadedPools \cup {<< >>}
    /\ rate_limits = << >>
    /\ last_used_index = 0
    /\ now = StartNow
    /\ lease = NoLease
    /\ ReqIdle
    /\ RepairIdle
    /\ ToolsIdle
    /\ AdminIdle
    /\ SseIdle
    /\ TasksIdle
    /\ ClientIdle
    /\ LocksIdle

EarlierMark ==
    /\ pc = "idle"
    /\ \E index \in 0 .. Len(accounts) - 1, family \in ModelFamily, secs \in EarlierMarkSecs :
           /\ MarksHeld(DOMAIN rate_limits) < MaxMarks
           /\ rate_limits' = mark_rate_limited(index, family, now + secs)
    /\ UNCHANGED <<accounts, last_used_index, now, lease>>
    /\ UNCHANGED reqVars
    /\ UNCHANGED <<repairVars, toolVars, adminVars, sseVars, taskVars, clientVars, lockVars>>

\* chat_completions / messages: the request arrives and is dispatched.
ReqStart ==
    /\ pc = "idle"
    /\ \E r \in Requests :
           /\ req' = r
           /\ IF r.endpoint = "chat_completions"
              THEN IF from_str(r.model) = None
                   THEN /\ pc' = "done"
                        /\ hs' = HsInit("none")
                        /\ response' = Resp(400, "invalid_request_error")
                   ELSE /\ pc' = "acquire"
                        /\ hs' = HsInit(Unwrap(from_str(r.model)))
                        /\ response' = None
              ELSE /\ pc' = IF r.stream THEN "stream_open" ELSE "acquire"
                   /\ hs' = HsInit(map_anthropic_to_antigravity(r.model))
                   /\ response' = None
    /\ UNCHANGED <<events, calls, pool_calls>>
    /\ UNCHANGED <<accounts, rate_limits, last_used_index, now, lease>>
    /\ UNCHANGED <<repairVars, toolVars, adminVars, sseVars, taskVars, clientVars, lockVars>>

\* Mutant of StreamOpen: nothing is emitted before the acquisition loop.
StreamOpenLate ==
    /\ pc = "stream_open"
    /\ hs' = [hs EXCEPT !.block_index = 0, !.status_block_open = TRUE]
    /\ pc' = "acquire"
    /\ UNCHANGED <<req, events, calls, pool_calls, response>>
    /\ UNCHANGED <<accounts, rate_limits, last_used_index, now, lease>>
    /\ UNCHANGED <<repairVars, toolVars, adminVars, sseVars, taskVars, clientVars, lockVars>>

\* messages_streaming: message_start, the status block and its first line.
StreamOpen ==
    /\ pc = "stream_open"
    /\ events' = <<Ev("message_start", 0, ""),
                   Ev("content_block_start", 0, "text"),
                   Ev("content_block_delta", 0, "text_delta")>>
    /\ hs' = [hs EXCEPT !.block_index = 0, !.status_block_open = TRUE]
    /\ pc' = "acquire"
    /\ UNCHANGED <<req, calls, pool_calls, response>>
    /\ UNCHANGED <<accounts, rate_limits, last_used_index, now, lease>>
    /\ UNCHANGED <<repairVars, toolVars, adminVars, sseVars, taskVars, clientVars, lockVars>>

\* Mutant of StatusError: the status block is stopped and nothing follows.
StatusError_stop_only(type) == <<Ev("content_block_stop", 0, "")>>

\* The events of an error that ends the stream while the status block is the
\* open block: the block is stopped, then the error is sent.
StatusError(type) == <<Ev("content_block_stop", 0, ""), Ev("error", 0, type)>>

\* Does this handler try Strategy 0 in its acquisition loop?
has_strategy_0 == req.endpoint = "messages"

\* One iteration of the account acquisition loop of the three handlers.
Acquire ==
    /\ pc = "acquire"
    /\ \E o1 \in ReqOutcomeMaps, o2 \in ReqOutcomeMaps :
        LET r == get_available_account(o1)
            spoof_model == IF has_strategy_0 THEN get_spoof_model(hs.model) ELSE None
            r0 == get_available_account_ignoring_rate_limit(o2)
            wait_time == get_min_wait_time_for_model(req.model)
            lease1 == PoolCall("get_available_account", -1, Gemini)
            lease0 == IF IsSome(spoof_model)
                      THEN <<PoolCall("get_available_account_ignoring_rate_limit", -1, Gemini)>>
                      ELSE << >>
            minw == PoolCall("get_min_wait_time_for_model", -1, from_model_id(req.model))
        IN  IF IsSome(r.ret)
            THEN /\ o2 = o1
                 /\ accounts' = r.accounts
                 /\ last_used_index' = r.last_used_index
                 /\ hs' = [hs EXCEPT !.account = r.ret]
                 /\ pool_calls' = Append(pool_calls, lease1)
                 /\ pc' = "client"
                 /\ UNCHANGED <<now, events, response>>
            ELSE IF IsSome(spoof_model) /\ IsSome(r0.ret)
            THEN /\ accounts' = r0.accounts
                 /\ last_used_index' = r0.last_used_index
                 /\ hs' = [hs EXCEPT !.account = r0.ret,
                                     !.model = Unwrap(spoof_model),
                                     !.used_fallback = IF req.stream THEN TRUE
                                                      ELSE hs.used_fallback]
                 /\ pool_calls' = Append(pool_calls, lease1) \o lease0
                 /\ events' = IF req.stream
                              THEN Append(events, Ev("content_block_delta", 0, "text_delta"))
                              ELSE events
                 /\ pc' = "client"
                 /\ UNCHANGED <<now, response>>
            ELSE /\ o2 = o1
                 /\ pool_calls' = (Append(pool_calls, lease1) \o lease0) \o <<minw>>
                 /\ UNCHANGED <<accounts, last_used_index, hs>>
                 /\ IF IsSome(wait_time)
                    THEN IF Unwrap(wait_time) > WaitCapSecs
                         THEN /\ pc' = "done"
                              /\ events' = IF req.stream
                                           THEN events \o StatusError("rate_limit_error")
                                           ELSE events
                              /\ response' = IF req.stream THEN None
                                             ELSE Resp(429, "rate_limit_error")
                              /\ now' = now
                         ELSE /\ pc' = "acquire"
                              /\ events' = IF req.stream
                                           THEN Append(events,
                                                  Ev("content_block_delta", 0, "text_delta"))
                                           ELSE events
                              /\ now' = now + Unwrap(wait_time) + 1
                              /\ response' = response
                    ELSE /\ pc' = "done"
                         /\ events' = IF req.stream
                                      THEN events \o StatusError("authentication_error")
                                      ELSE events
                         /\ response' = IF req.stream THEN None
                                        ELSE Resp(401, "authentication_error")
                         /\ now' = now
    /\ UNCHANGED <<req, calls, rate_limits, lease>>
    /\ UNCHANGED <<repairVars, toolVars, adminVars, sseVars, taskVars, clientVars, lockVars>>

\* AntigravityClient::new for the leased account; in the streaming handler
\* the status block reports the account and is closed once the client exists.
Client ==
    /\ pc = "client"
    /\ \E client_ok \in BOOLEAN :
           IF req.stream
           THEN LET using == Append(events, Ev("content_block_delta", 0, "text_delta"))
                IN  IF client_ok
                    THEN /\ events' = Append(using, Ev("content_block_stop", 0, ""))
                         /\ hs' = [hs EXCEPT !.status_block_open = FALSE,
                                             !.block_index = hs.block_index + 1]
                         /\ pc' = "request"
                         /\ response' = response
                    ELSE /\ events' = using \o StatusError("api_error")
                         /\ pc' = "done"
                         /\ UNCHANGED <<hs, response>>
           ELSE IF client_ok
                THEN /\ pc' = "request"
                     /\ UNCHANGED <<hs, events, response>>
                ELSE /\ pc' = "done"
                     /\ response' = Resp(500, "api_error")
                     /\ UNCHANGED <<hs, events>>
    /\ UNCHANGED <<req, calls, pool_calls>>
    /\ UNCHANGED <<accounts, rate_limits, last_used_index, now, lease>>
    /\ UNCHANGED <<repairVars, toolVars, adminVars, sseVars, taskVars, clientVars, lockVars>>

is_rate_limit_like(e) == is_rate_or_capacity(e) \/ e.digits

account_of(h) == Unwrap(h.account)

\* handle_antigravity_request: the upstream call and the response.
ChatRequest ==
    /\ pc = "request"
    /\ req.endpoint = "chat_completions"
    /\ \E out \in PrimaryOutcomes :
           LET index == account_of(hs).index
               family == family_of(hs.model)
           IN  /\ calls' = Append(calls, Call(account_of(hs), hs.model, "antigravity", out))
               /\ IF out.ok
                  THEN /\ rate_limits' = clear_rate_limit(index, family)
                       /\ pool_calls' = Append(pool_calls,
                                               PoolCall("clear_rate_limit", index, family))
                       /\ response' = Resp(200, "chat.completion")
                  ELSE IF is_rate_or_capacity(out)
                  THEN /\ rate_limits' = mark_rate_limited(index, family,
                                                           now + effective_seconds(out))
                       /\ pool_calls' = Append(pool_calls,
                                               PoolCall("mark_rate_limited", index, family))
                       /\ response' = Resp(429, IF out.prefix = "CAPACITY_ERROR"
                                                THEN "capacity_error" ELSE "rate_limit_error")
                  ELSE /\ response' = Resp(500, "api_error")
                       /\ UNCHANGED <<rate_limits, pool_calls>>
    /\ pc' = "done"
    /\ UNCHANGED <<req, hs, events>>
    /\ UNCHANGED <<accounts, last_used_index, now, lease>>
    /\ UNCHANGED <<repairVars, toolVars, adminVars, sseVars, taskVars, clientVars, lockVars>>

after_strategy_1(model) == IF is_gemini(model) THEN "strategy_1_5" ELSE "strategy_2"

\* messages: the primary upstream call and the choice of what follows it.
MessagesRequest ==
    /\ pc = "request"
    /\ req.endpoint = "messages" /\ ~req.stream
    /\ \E out \in PrimaryOutcomes :
           LET index == account_of(hs).index
               family == family_of(hs.model)
           IN  /\ calls' = Append(calls, Call(account_of(hs), hs.model, "antigravity", out))
               /\ IF out.ok
                  THEN /\ hs' = [hs EXCEPT !.api_result = Some(out)]
                       /\ pc' = "respond"
                       /\ UNCHANGED <<rate_limits, pool_calls>>
                  ELSE IF is_recoverable_error(out)
                  THEN /\ pc' = "recovery_retry"
                       /\ UNCHANGED <<hs, rate_limits, pool_calls>>
                  ELSE IF is_rate_limit_like(out)
                  THEN /\ hs' = [hs EXCEPT !.used_fallback = TRUE, !.error = Some(out)]
                       /\ rate_limits' = mark_rate_limited(index, family,
                                                           now + effective_seconds(out))
                       /\ pool_calls' = Append(pool_calls,
                                               PoolCall("mark_rate_limited", index, family))
                       /\ pc' = IF IsSome(get_spoof_model(hs.model)) THEN "strategy_1"
                                ELSE after_strategy_1(hs.model)
                  ELSE /\ hs' = [hs EXCEPT !.api_result = Some(out)]
                       /\ pc' = "respond"
                       /\ UNCHANGED <<rate_limits, pool_calls>>
    /\ UNCHANGED <<req, events, response>>
    /\ UNCHANGED <<accounts, last_used_index, now, lease>>
    /\ UNCHANGED <<repairVars, toolVars, adminVars, sseVars, taskVars, clientVars, lockVars>>

\* messages: one retry of the same model after a recoverable session error.
RecoveryRetry ==
    /\ pc = "recovery_retry"
    /\ \E out \in UpstreamOutcomes :
           /\ calls' = Append(calls, Call(account_of(hs), hs.model, "antigravity", out))
           /\ hs' = [hs EXCEPT !.api_result = Some(out)]
    /\ pc' = "respond"
    /\ UNCHANGED <<req, events, pool_calls, response>>
    /\ UNCHANGED <<accounts, rate_limits, last_used_index, now, lease>>
    /\ UNCHANGED <<repairVars, toolVars, adminVars, sseVars, taskVars, clientVars, lockVars>>

\* messages, Strategy 1: the spoof model on the same account and client.
Strategy1 ==
    /\ pc = "strategy_1"
    /\ \E out \in UpstreamOutcomes :
           /\ calls' = Append(calls, Call(account_of(hs),
                                          Unwrap(get_spoof_model(hs.model)), "antigravity",
                                          out))
           /\ IF out.ok
              THEN /\ hs' = [hs EXCEPT !.api_result = Some(out)]
                   /\ pc' = "respond"
              ELSE /\ hs' = hs
                   /\ pc' = after_strategy_1(hs.model)
    /\ UNCHANGED <<req, events, pool_calls, response>>
    /\ UNCHANGED <<accounts, rate_limits, last_used_index, now, lease>>
    /\ UNCHANGED <<repairVars, toolVars, adminVars, sseVars, taskVars, clientVars, lockVars>>

\* messages, Strategy 1.5: the same model on the same account through a new
\* client switched to the Gemini CLI headers.
Strategy1_5 ==
    /\ pc = "strategy_1_5"
    /\ \E cli_client_ok \in BOOLEAN, out \in UpstreamOutcomes :
           IF cli_client_ok
           THEN /\ calls' = Append(calls, Call(account_of(hs), hs.model, "gemini-cli", out))
                /\ IF out.ok
                   THEN /\ hs' = [hs EXCEPT !.api_result = Some(out)]
                        /\ pc' = "respond"
                   ELSE /\ hs' = hs
                        /\ pc' = "strategy_2"
           ELSE /\ out = UpstreamOk
                /\ pc' = "strategy_2"
                /\ UNCHANGED <<calls, hs>>
    /\ UNCHANGED <<req, events, pool_calls, response>>
    /\ UNCHANGED <<accounts, rate_limits, last_used_index, now, lease>>
    /\ UNCHANGED <<repairVars, toolVars, adminVars, sseVars, taskVars, clientVars, lockVars>>

\* messages, Strategy 2: another account, with the spoof model if there is one.
Strategy2 ==
    /\ pc = "strategy_2"
    /\ \E outcomes \in ReqOutcomeMaps, client_ok \in BOOLEAN, out \in UpstreamOutcomes :
           LET r == get_available_account(outcomes)
               target_model == IF IsSome(get_spoof_model(hs.model))
                               THEN Unwrap(get_spoof_model(hs.model)) ELSE hs.model
           IN  /\ pool_calls' = Append(pool_calls,
                                       PoolCall("get_available_account", -1, Gemini))
               /\ accounts' = r.accounts
               /\ last_used_index' = r.last_used_index
               /\ IF IsSome(r.ret) /\ client_ok
                  THEN /\ calls' = Append(calls,
                                          Call(Unwrap(r.ret), target_model, "antigravity", out))
                       /\ hs' = [hs EXCEPT !.api_result = Some(out)]
                  ELSE /\ out = UpstreamOk
                       /\ (r.ret = None => client_ok)
                       /\ calls' = calls
                       /\ hs' = [hs EXCEPT !.api_result = hs.error]
    /\ pc' = "respond"
    /\ UNCHANGED <<req, events, response>>
    /\ UNCHANGED <<rate_limits, now, lease>>
    /\ UNCHANGED <<repairVars, toolVars, adminVars, sseVars, taskVars, clientVars, lockVars>>

\* messages: the response built from api_result.
Respond ==
    /\ pc = "respond"
    /\ LET api_result == Unwrap(hs.api_result)
           index == account_of(hs).index
           family == family_of(hs.model)
       IN  IF api_result.ok
           THEN /\ IF ~hs.used_fallback
                   THEN /\ rate_limits' = clear_rate_limit(index, family)
                        /\ pool_calls' = Append(pool_calls,
                                                PoolCall("clear_rate_limit", index, family))
                   ELSE UNCHANGED <<rate_limits, pool_calls>>
                /\ response' = Resp(200, "message")
           ELSE IF is_rate_or_capacity(api_result)
           THEN /\ rate_limits' = mark_rate_limited(index, family,
                                                    now + effective_seconds(api_result))
                /\ pool_calls' = Append(pool_calls,
                                        PoolCall("mark_rate_limited", index, family))
                /\ response' = Resp(429, IF api_result.prefix = "CAPACITY_ERROR"
                                         THEN "capacity_error" ELSE "rate_limit_error")
           ELSE /\ response' = Resp(500, "api_error")
                /\ UNCHANGED <<rate_limits, pool_calls>>
    /\ pc' = "done"
    /\ UNCHANGED <<req, hs, events, calls>>
    /\ UNCHANGED <<accounts, last_used_index, now, lease>>
    /\ UNCHANGED <<repairVars, toolVars, adminVars, sseVars, taskVars, clientVars, lockVars>>

(***************************************************************************)
(* JSON values (serde_json::Value): an object (a map from keys to values), *)
(* an array or a scalar.  A JSON text is the sequence of its tokens.       *)
(***************************************************************************)
JObject(fields) == [kind |-> "object", fields |-> fields, elems |-> << >>, v |-> ""]
JArray(elems) == [kind |-> "array", fields |-> << >>, elems |-> elems, v |-> ""]
JScalar(v) == [kind |-> "scalar", fields |-> << >>, elems |-> << >>, v |-> v]

\* serde_json::to_string / Value::to_string
RECURSIVE to_string(_)
to_string(value) ==
    LET RECURSIVE members(_)
        members(keys) ==
            IF keys = {} THEN << >>
            ELSE LET key == CHOOSE k \in keys : TRUE
                 IN  (<<key, ":">> \o to_string(value.fields[key]))
                     \o (IF keys = {key} THEN << >> ELSE <<",">>)
                     \o members(keys \ {key})
        RECURSIVE items(_)
        items(i) ==
            IF i > Len(value.elems) THEN << >>
            ELSE (to_string(value.elems[i])
                  \o (IF i = Len(value.elems) THEN << >> ELSE <<",">>))
                 \o items(i + 1)
    IN  CASE value.kind = "object" -> (<<"{">> \o members(DOMAIN value.fields)) \o <<"}">>
          [] value.kind = "array" -> (<<"[">> \o items(1)) \o <<"]">>
          [] OTHER -> <<value.v>>

(***************************************************************************)
(* messages_streaming: the upstream request and the body of the stream.    *)
(***************************************************************************)
MaxChunks == 2

\* Mutant of FinalError: the stream is closed with message_stop after the error.
FinalErrorThenStop(h) ==
    (IF h.status_block_open THEN <<Ev("content_block_stop", 0, "")>> ELSE << >>)
    \o <<Ev("error", 0, "api_error"), Ev("message_stop", 0, "")>>

\* The final error report: the status block is stopped only if it is open.
FinalError(h) ==
    (IF h.status_block_open THEN <<Ev("content_block_stop", 0, "")>> ELSE << >>)
    \o <<Ev("error", 0, "api_error")>>

StreamRequest ==
    /\ pc = "request"
    /\ req.endpoint = "messages" /\ req.stream
    /\ \E out \in PrimaryOutcomes :
           LET index == account_of(hs).index
               spoof_model == get_spoof_model(hs.model)
           IN  /\ calls' = Append(calls, Call(account_of(hs), hs.model, "antigravity", out))
               /\ IF out.ok
                  THEN /\ IF ~hs.used_fallback
                          THEN /\ rate_limits' =
                                      clear_rate_limit(index, family_of(hs.original_model))
                               /\ pool_calls' =
                                      Append(pool_calls,
                                             PoolCall("clear_rate_limit", index,
                                                      family_of(hs.original_model)))
                          ELSE UNCHANGED <<rate_limits, pool_calls>>
                       /\ hs' = [hs EXCEPT !.text_index = hs.block_index,
                                           !.inside_thought = FALSE,
                                           !.has_tool_use = FALSE,
                                           !.seen = << >>]
                       /\ events' = Append(events,
                                           Ev("content_block_start", hs.block_index, "text"))
                       /\ pc' = "body"
                  ELSE IF is_rate_or_capacity(out)
                  THEN /\ rate_limits' = mark_rate_limited(index, family_of(hs.model),
                                                           now + effective_seconds(out))
                       /\ pool_calls' = Append(pool_calls,
                                               PoolCall("mark_rate_limited", index,
                                                        family_of(hs.model)))
                       /\ IF IsSome(spoof_model)
                          THEN LET new_index == hs.block_index + 1
                               IN  IF hs.status_block_open
                                   THEN /\ hs' = [hs EXCEPT !.used_fallback = TRUE,
                                                            !.fallback_status_index = 0]
                                        /\ events' =
                                             Append(events,
                                                    Ev("content_block_delta", 0, "text_delta"))
                                        /\ pc' = "stream_strategy_1"
                                   ELSE /\ hs' = [hs EXCEPT !.used_fallback = TRUE,
                                                            !.block_index = new_index,
                                                            !.fallback_status_index = new_index]
                                        /\ events' =
                                             events
                                             \o <<Ev("content_block_start", new_index, "text"),
                                                  Ev("content_block_delta", new_index,
                                                     "text_delta")>>
                                        /\ pc' = "stream_strategy_1"
                          ELSE /\ events' = events \o FinalError(hs)
                               /\ hs' = hs
                               /\ pc' = "done"
                  ELSE /\ events' = events \o FinalError(hs)
                       /\ pc' = "done"
                       /\ UNCHANGED <<hs, rate_limits, pool_calls>>
    /\ UNCHANGED <<req, response>>
    /\ UNCHANGED <<accounts, last_used_index, now, lease>>
    /\ UNCHANGED <<repairVars, toolVars, adminVars, sseVars, taskVars, clientVars, lockVars>>

\* Strategy 1 of the streaming handler: the spoof model on the same client.
StreamStrategy1 ==
    /\ pc = "stream_strategy_1"
    /\ \E out \in UpstreamOutcomes :
           /\ calls' = Append(calls, Call(account_of(hs),
                                          Unwrap(get_spoof_model(hs.model)), "antigravity",
                                          out))
           /\ IF out.ok
              THEN /\ events' = events
                                \o <<Ev("content_block_stop", hs.fallback_status_index, ""),
                                     Ev("content_block_start", hs.block_index + 1, "text")>>
                   /\ hs' = [hs EXCEPT !.text_index = hs.block_index + 1,
                                       !.inside_thought = FALSE,
                                       !.has_tool_use = FALSE,
                                       !.seen = << >>]
                   /\ pc' = "body"
              ELSE /\ events' = (IF hs.status_block_open
                                 THEN Append(events,
                                             Ev("content_block_delta", 0, "text_delta"))
                                 ELSE events) \o FinalError(hs)
                   /\ hs' = hs
                   /\ pc' = "done"
    /\ UNCHANGED <<req, pool_calls, response>>
    /\ UNCHANGED <<accounts, rate_limits, last_used_index, now, lease>>
    /\ UNCHANGED <<repairVars, toolVars, adminVars, sseVars, taskVars, clientVars, lockVars>>

\* StreamChunk, the item type of the client's chunk stream
Chunk(delta, is_thinking, is_tool_use, done) ==
    [delta |-> delta, is_thinking |-> is_thinking, is_tool_use |-> is_tool_use,
     done |-> done]

\* chat_completion_stream: the tool_use JSON built from a functionCall part;
\* call.get("args") of a part without args serializes as null.
function_call_to_tool_use(call) ==
    JObject([type |-> JScalar("\"tool_use\""),
             id |-> JScalar("\"call_1\""),
             name |-> JScalar(call.name),
             input |-> IF IsSome(call.args) THEN Unwrap(call.args) ELSE JScalar("null")])

\* The items the upstream stream can yield: text and thinking chunks, the
\* chunk of a functionCall part (without args, with empty args, with one
\* argument), the final chunk, and a transport error.
StreamItems ==
    LET FunctionCalls ==
            {[name |-> "\"read_file\"", args |-> args] :
                args \in {None, Some(JObject(<< >>)),
                          Some(JObject([path |-> JScalar("\"a\"")]))}}
    IN  {[ok |-> TRUE, chunk |-> Chunk(<<"text">>, FALSE, FALSE, FALSE)],
         [ok |-> TRUE, chunk |-> Chunk(<<"text">>, TRUE, FALSE, FALSE)],
         [ok |-> TRUE, chunk |-> Chunk(<< >>, FALSE, FALSE, TRUE)],
         [ok |-> FALSE, chunk |-> Chunk(<< >>, FALSE, FALSE, FALSE)]}
        \cup {[ok |-> TRUE, chunk |-> Chunk(to_string(function_call_to_tool_use(call)), FALSE, TRUE, FALSE)] :
                 call \in FunctionCalls}

\* serde_json::from_str on the texts a chunk can carry: the value whose
\* serialization the text is, or an error (None) for any other text.
serde_from_str(text) ==
    LET values == {JObject([type |-> JScalar("\"tool_use\""),
                            id |-> JScalar("\"call_1\""),
                            name |-> JScalar("\"read_file\""),
                            input |-> input]) :
                      input \in {JScalar("null"), JObject(<< >>),
                                 JObject([path |-> JScalar("\"a\"")])}}
                  \cup {JScalar("null"), JObject(<< >>),
                        JObject([path |-> JScalar("\"a\"")])}
        parsed == {value \in values : to_string(value) = text}
    IN  IF parsed = {} THEN None ELSE Some(CHOOSE value \in parsed : TRUE)

\* Mutant of tool_use_events: the whole tool_use JSON is sent as partial_json.
tool_use_events_raw_delta(text_index, delta) ==
    <<Ev("content_block_stop", text_index, ""),
      [Ev("content_block_start", text_index + 1, "tool_use") EXCEPT !.data = delta],
      [Ev("content_block_delta", text_index + 1, "input_json_delta") EXCEPT !.data = delta],
      Ev("content_block_stop", text_index + 1, ""),
      Ev("content_block_start", text_index + 2, "text")>>

\* Mutant of tool_use_events: only the open text block is stopped.
tool_use_events_stop_only(text_index, delta) ==
    <<Ev("content_block_stop", text_index, "")>>

\* The events of the body loop for one chunk with is_tool_use.
tool_use_events(text_index, delta) ==
    LET parsed == serde_from_str(delta)
        tool_json == Unwrap(parsed)
        input_obj == IF tool_json.kind = "object" /\ "input" \in DOMAIN tool_json.fields
                     THEN tool_json.fields["input"] ELSE JObject(<< >>)
        content_block ==
            IF tool_json.kind = "object"
            THEN JObject([key \in DOMAIN tool_json.fields \cup {"input"} |->
                             IF key = "input" THEN JObject(<< >>)
                             ELSE tool_json.fields[key]])
            ELSE tool_json
    IN  <<Ev("content_block_stop", text_index, "")>>
        \o (IF IsSome(parsed)
            THEN <<[Ev("content_block_start", text_index + 1, "tool_use")
                       EXCEPT !.data = to_string(content_block)],
                   [Ev("content_block_delta", text_index + 1, "input_json_delta")
                       EXCEPT !.data = to_string(input_obj)],
                   Ev("content_block_stop", text_index + 1, ""),
                   Ev("content_block_start", text_index + 2, "text")>>
            ELSE << >>)

\* Mutant of stop_reason: the stream always reports end_turn.
stop_reason_end_turn(has_tool_use) == "end_turn"

stop_reason(has_tool_use) == IF has_tool_use THEN "tool_use" ELSE "end_turn"

\* One item of the upstream stream, handled by the body loop (the same loop
\* serves the primary stream and the spoof stream).
StreamChunk ==
    /\ pc = "body"
    /\ \E item \in StreamItems :
           LET chunk == item.chunk
               seen == Append(hs.seen, item)
           IN  /\ (hs.chunks >= MaxChunks => (~item.ok \/ chunk.done))
               /\ IF ~item.ok
                  THEN /\ events' = Append(events, Ev("error", 0, "api_error"))
                       /\ hs' = [hs EXCEPT !.seen = seen]
                       /\ pc' = "done"
                  ELSE IF chunk.done
                  THEN /\ events' = events
                                    \o <<Ev("content_block_stop", hs.text_index, ""),
                                         Ev("message_delta", 0, stop_reason(hs.has_tool_use)),
                                         Ev("message_stop", 0, "")>>
                       /\ hs' = [hs EXCEPT !.seen = seen]
                       /\ pc' = "done"
                  ELSE IF chunk.is_tool_use
                  THEN /\ events' = events \o tool_use_events(hs.text_index, chunk.delta)
                       /\ hs' = [hs EXCEPT !.has_tool_use = TRUE,
                                           !.text_index =
                                               IF IsSome(serde_from_str(chunk.delta))
                                               THEN hs.text_index + 2
                                               ELSE hs.text_index + 1,
                                           !.chunks = hs.chunks + 1,
                                           !.seen = seen]
                       /\ pc' = "body"
                  ELSE /\ events' = Append(events,
                                           Ev("content_block_delta", hs.text_index,
                                              "text_delta"))
                       /\ hs' = [hs EXCEPT !.inside_thought = chunk.is_thinking,
                                           !.chunks = hs.chunks + 1,
                                           !.seen = seen]
                       /\ pc' = "body"
    /\ UNCHANGED <<req, calls, pool_calls, response>>
    /\ UNCHANGED <<accounts, rate_limits, last_used_index, now, lease>>
    /\ UNCHANGED <<repairVars, toolVars, adminVars, sseVars, taskVars, clientVars, lockVars>>

ReqNext ==
    \/ EarlierMark
    \/ ReqStart
    \/ StreamOpen
    \/ Acquire
    \/ Client
    \/ ChatRequest
    \/ MessagesRequest
    \/ RecoveryRetry
    \/ Strategy1
    \/ Strategy1_5
    \/ Strategy2
    \/ Respond
    \/ StreamRequest
    \/ StreamStrategy1
    \/ StreamChunk

SpecReq == ReqInit /\ [][ReqNext]_vars

(***************************************************************************)
(* Session repair (api-server/src/session_recovery.rs).  A message is its  *)
(* role and its content: a string, or an array of blocks.  A block is      *)
(* modelled by the fields the repair reads.                                *)
(***************************************************************************)
MaxMsgs == 2
BlockCounts == {0, 1, 2}

Block(type, id, has_name, has_signature, has_thinking) ==
    [type |-> type, id |-> id, has_name |-> has_name, has_signature |-> has_signature,
     has_thinking |-> has_thinking, synthetic |-> FALSE]

Message(role, is_array, blocks) == [role |-> role, is_array |-> is_array, blocks |-> blocks]

ToolIds == {"t1", "t2"}

AssistantBlocks ==
    {Block("text", "", FALSE, FALSE, FALSE),
     Block("thinking", "", FALSE, TRUE, TRUE),
     Block("thinking", "", FALSE, FALSE, TRUE),
     Block("tool_use", "t1", FALSE, FALSE, FALSE)}
    \cup {Block("tool_use", t, TRUE, FALSE, FALSE) : t \in ToolIds}

UserBlocks ==
    {Block("text", "", FALSE, FALSE, FALSE)}
    \cup {Block("tool_result", t, FALSE, FALSE, FALSE) : t \in ToolIds}

SeqsOf(S, lengths) == UNION {[1 .. k -> S] : k \in lengths}

Messages ==
    {Message("assistant", TRUE, b) : b \in SeqsOf(AssistantBlocks, BlockCounts)}
    \cup {Message("user", TRUE, b) : b \in SeqsOf(UserBlocks, BlockCounts)}
    \cup {Message(r, FALSE, << >>) : r \in {"assistant", "user"}}

Conversations == SeqsOf(Messages, 0 .. MaxMsgs)

\* Mutant of synthetic_result: the note is sent as a text block.
synthetic_note(tool_use) ==
    [role |-> "user", is_array |-> TRUE,
     blocks |-> <<[type |-> "text", id |-> tool_use.id, has_name |-> FALSE,
                   has_signature |-> FALSE, has_thinking |-> FALSE, synthetic |-> TRUE]>>]

\* The user message injected for one tool_use block.
synthetic_result(tool_use) ==
    [role |-> "user", is_array |-> TRUE,
     blocks |-> <<[type |-> "tool_result", id |-> tool_use.id, has_name |-> FALSE,
                   has_signature |-> FALSE, has_thinking |-> FALSE, synthetic |-> TRUE]>>]

has_block(msg, type) ==
    msg.is_array /\ \E k \in 1 .. Len(msg.blocks) : msg.blocks[k].type = type

next_is_tool_result(messages, i) ==
    /\ i + 1 <= Len(messages)
    /\ messages[i + 1].role = "user"
    /\ has_block(messages[i + 1], "tool_result")

\* The synthetic results pushed for the tool_use blocks k .. of one message.
RECURSIVE injected_from(_, _)
injected_from(blocks, k) ==
    IF k > Len(blocks) THEN << >>
    ELSE (IF blocks[k].type = "tool_use" /\ blocks[k].id # "" /\ blocks[k].has_name
          THEN <<synthetic_result(blocks[k])>> ELSE << >>)
         \o injected_from(blocks, k + 1)

injected(messages, i) ==
    IF /\ messages[i].role = "assistant"
       /\ has_block(messages[i], "tool_use")
       /\ ~next_is_tool_result(messages, i)
    THEN injected_from(messages[i].blocks, 1)
    ELSE << >>

RECURSIVE fixed_from(_, _)
fixed_from(messages, i) ==
    IF i > Len(messages) THEN << >>
    ELSE (<<messages[i]>> \o injected(messages, i)) \o fixed_from(messages, i + 1)

fix_missing_tool_results(messages) ==
    [was_fixed |-> \E i \in 1 .. Len(messages) : injected(messages, i) # << >>,
     messages |-> fixed_from(messages, 1)]

corrupted_thinking(block) ==
    block.type = "thinking" /\ (~block.has_signature \/ ~block.has_thinking)

fixed_content(blocks) == SelectSeq(blocks, LAMBDA b : ~corrupted_thinking(b))

removed_thinking(msg) ==
    /\ msg.role = "assistant"
    /\ msg.is_array
    /\ \E k \in 1 .. Len(msg.blocks) : corrupted_thinking(msg.blocks[k])

fix_thinking_order(messages) ==
    [was_fixed |-> \E i \in 1 .. Len(messages) : removed_thinking(messages[i]),
     messages |-> [i \in 1 .. Len(messages) |->
                      IF removed_thinking(messages[i])
                      THEN [messages[i] EXCEPT !.blocks = fixed_content(messages[i].blocks)]
                      ELSE messages[i]]]

recover_session(messages) ==
    IF messages = << >>
    THEN [was_recovered |-> FALSE, messages |-> messages]
    ELSE LET tool_fix_result == fix_missing_tool_results(messages)
             recovered_messages == IF tool_fix_result.was_fixed
                                   THEN tool_fix_result.messages ELSE messages
             thinking_fix_result == fix_thinking_order(recovered_messages)
         IN  [was_recovered |-> tool_fix_result.was_fixed \/ thinking_fix_result.was_fixed,
              messages |-> IF thinking_fix_result.was_fixed
                           THEN thinking_fix_result.messages ELSE recovered_messages]

RepairInit ==
    /\ msgs \in Conversations
    /\ rec1 = None
    /\ rec2 = None
    /\ rpc = "idle"
    /\ accounts = << >>
    /\ rate_limits = << >>
    /\ last_used_index = 0
    /\ now = StartNow
    /\ lease = NoLease
    /\ ReqIdle
    /\ ToolsIdle
    /\ AdminIdle
    /\ SseIdle
    /\ TasksIdle
    /\ ClientIdle
    /\ LocksIdle

Repair1 ==
    /\ rpc = "idle"
    /\ rec1' = Some(recover_session(msgs))
    /\ rpc' = "once"
    /\ UNCHANGED <<msgs, rec2>>
    /\ UNCHANGED <<poolVars, lease, reqVars, toolVars, adminVars, sseVars, taskVars, clientVars, lockVars>>

Repair2 ==
    /\ rpc = "once"
    /\ rec2' = Some(recover_session(Unwrap(rec1).messages))
    /\ rpc' = "twice"
    /\ UNCHANGED <<msgs, rec1>>
    /\ UNCHANGED <<poolVars, lease, reqVars, toolVars, adminVars, sseVars, taskVars, clientVars, lockVars>>

RepairNext ==
    \/ Repair1
    \/ Repair2

SpecRepair == RepairInit /\ [][RepairNext]_vars

(***************************************************************************)
(* Tool translation: convert_anthropic_tools (api-server) followed by      *)
(* build_request_body / sanitize_tool_definition (upstream client).        *)
(* JSON values are built with JObject, JArray and JScalar.                  *)
(***************************************************************************)
\* obj.remove(key) for every key of keys
remove(fields, keys) == [k \in DOMAIN fields \ keys |-> fields[k]]

\* routes.rs: the api-server's sanitizer
RECURSIVE sanitize_schema(_)
sanitize_schema(schema) ==
    IF schema.kind # "object" THEN schema
    ELSE LET forbidden_keys ==
                 {"$schema", "$id", "default", "title", "examples",
                  "minLength", "maxLength", "pattern", "format",
                  "minimum", "maximum", "exclusiveMinimum", "exclusiveMaximum",
                  "multipleOf", "minItems", "maxItems", "uniqueItems",
                  "minProperties", "maxProperties", "propertyNames",
                  "const", "contentMediaType", "contentEncoding",
                  "additionalProperties"}
             obj == remove(schema.fields, forbidden_keys)
             nested(key) ==
                 IF key = "properties" /\ obj[key].kind = "object"
                 THEN JObject([p \in DOMAIN obj[key].fields |->
                                  sanitize_schema(obj[key].fields[p])])
                 ELSE IF key = "items"
                 THEN sanitize_schema(obj[key])
                 ELSE IF key \in {"allOf", "anyOf", "oneOf"} /\ obj[key].kind = "array"
                 THEN JArray([i \in DOMAIN obj[key].elems |->
                                 sanitize_schema(obj[key].elems[i])])
                 ELSE obj[key]
         IN  JObject([key \in DOMAIN obj |-> nested(key)])

\* antigravity.rs: the upstream client's sanitizer
RECURSIVE AntigravityClient_sanitize_schema(_)
AntigravityClient_sanitize_schema(schema) ==
    IF schema.kind # "object" THEN schema
    ELSE LET removed == remove(schema.fields,
                               {"$schema", "$id", "$ref", "$defs", "definitions",
                                "default", "examples"})
             obj == IF "const" \in DOMAIN removed
                    THEN [key \in (DOMAIN removed \ {"const"}) \cup {"enum"} |->
                             IF key = "enum" THEN JArray(<<removed["const"]>>)
                             ELSE removed[key]]
                    ELSE removed
             nested(key) ==
                 IF key = "properties" /\ obj[key].kind = "object"
                 THEN JObject([p \in DOMAIN obj[key].fields |->
                                  AntigravityClient_sanitize_schema(obj[key].fields[p])])
                 ELSE IF key = "items"
                 THEN AntigravityClient_sanitize_schema(obj[key])
                 ELSE obj[key]
         IN  JObject([key \in DOMAIN obj |-> nested(key)])

\* The input schemas of the check: schemas without nested schemas over a
\* few keywords, schemas holding one of them under properties, items or
\* anyOf, and schemas holding one of those ("title" is also a legal name of
\* a declared property).
ToolSchemas ==
    LET SchemaKeywords == {"type", "$ref", "title", "const"}
        OuterKeywords == {{}, {"type"}, {"$schema", "additionalProperties", "type"}}
        PropertyNames == {"x", "title"}
        KeywordObject(keys) ==
            [key \in keys |-> JScalar(IF key = "type" THEN "t" ELSE "y")]
        FlatSchemas == {JObject(KeywordObject(keys)) : keys \in SUBSET SchemaKeywords}
        Nesting(keys, inner) ==
            {JObject(KeywordObject(keys) @@ ("properties" :> JObject(name :> sub))) :
                 name \in PropertyNames, sub \in inner}
            \cup {JObject(KeywordObject(keys) @@ ("items" :> sub)) : sub \in inner}
            \cup {JObject(KeywordObject(keys) @@ ("anyOf" :> JArray(<<sub>>))) :
                      sub \in inner}
        nested1 == UNION {Nesting(keys, FlatSchemas) : keys \in OuterKeywords}
        nested2 == UNION {Nesting(keys, nested1) : keys \in {{"type"}}}
    IN  FlatSchemas \cup nested1 \cup nested2

ToolsInit ==
    /\ input_schema \in {Some(schema) : schema \in ToolSchemas}
    /\ parameters = None
    /\ tpc = "payload"
    /\ accounts = << >>
    /\ rate_limits = << >>
    /\ last_used_index = 0
    /\ now = StartNow
    /\ lease = NoLease
    /\ ReqIdle
    /\ RepairIdle
    /\ AdminIdle
    /\ SseIdle
    /\ TasksIdle
    /\ ClientIdle
    /\ LocksIdle

\* convert_anthropic_tools: params = tool["input_schema"].clone(); sanitize_schema
convert_anthropic_tools ==
    /\ tpc = "payload"
    /\ parameters' = Some(sanitize_schema(Unwrap(input_schema)))
    /\ tpc' = "converted"
    /\ UNCHANGED input_schema
    /\ UNCHANGED <<poolVars, lease, reqVars, repairVars, adminVars, sseVars, taskVars, clientVars, lockVars>>

\* build_request_body: function_declarations = sanitize_tool_definition(tool)
build_request_body ==
    /\ tpc = "converted"
    /\ parameters' = Some(AntigravityClient_sanitize_schema(Unwrap(parameters)))
    /\ tpc' = "sent"
    /\ UNCHANGED input_schema
    /\ UNCHANGED <<poolVars, lease, reqVars, repairVars, adminVars, sseVars, taskVars, clientVars, lockVars>>

ToolsNext ==
    \/ convert_anthropic_tools
    \/ build_request_body

SpecTools == ToolsInit /\ [][ToolsNext]_vars

(***************************************************************************)
(* Account administration: AccountManager::add_account, remove_account and *)
(* reload over the Token Store (TokenStorage::add_account, remove_account,  *)
(* load_accounts).                                                         *)
(***************************************************************************)
Emails == 0 .. NumAccounts

TokenPairs ==
    {[email |-> email, access_token |-> "at_added", refresh_token |-> "rt_added",
      expires_at |-> StartNow + ExpiresInLong] : email \in Emails}

\* The position of the first element with the email, if any: iter().find(..)
find(records, email) ==
    LET hits == {q \in 1 .. Len(records) : records[q].email = email}
    IN  IF hits = {} THEN None ELSE Some(CHOOSE q \in hits : \A r \in hits : q <= r)

\* accounts.retain(|a| a.email != email)
retain(records, email) ==
    LET keep(a) == a.email # email
    IN  SelectSeq(records, keep)

\* TokenStorage::add_account that pushes a record whatever the store holds
storage_add_account_always_push(stored, token_pair) ==
    [stored EXCEPT !.accounts =
        Append(@, [email |-> token_pair.email,
                   refresh_token |-> token_pair.refresh_token])]

\* TokenStorage::add_account
storage_add_account(stored, token_pair) ==
    LET existing == find(stored.accounts, token_pair.email)
    IN  IF IsSome(existing)
        THEN [stored EXCEPT !.accounts[Unwrap(existing)].refresh_token =
                                token_pair.refresh_token]
        ELSE [stored EXCEPT !.accounts =
                 Append(@, [email |-> token_pair.email,
                            refresh_token |-> token_pair.refresh_token])]

\* TokenStorage::remove_account: the store afterwards and the returned flag
storage_remove_account(stored, email) ==
    LET kept == retain(stored.accounts, email)
    IN  IF Len(kept) < Len(stored.accounts)
        THEN [removed |-> TRUE,
              stored |-> [accounts |-> kept,
                          active_index |->
                              IF stored.active_index >= Len(kept) /\ Len(kept) > 0
                              THEN Len(kept) - 1 ELSE stored.active_index]]
        ELSE [removed |-> FALSE, stored |-> stored]

\* remove_account without the re-indexing loop
reindex_skipped(accs) == accs

\* for (i, account) in accounts.iter_mut().enumerate() { account.index = i }
reindex(accs) == [p \in 1 .. Len(accs) |-> [accs[p] EXCEPT !.index = p - 1]]

\* load_accounts_from_storage: one account per stored record, in stored
\* order; refreshed[p] tells whether the refresh of record p succeeded.
load_accounts_from_storage(stored, refreshed) ==
    [p \in 1 .. Len(stored.accounts) |->
        [LoadedAccount(p - 1, refreshed[p]) EXCEPT
            !.email = stored.accounts[p].email,
            !.refresh_token = stored.accounts[p].refresh_token]]

AdminCall(op, email, refresh_token, ok, ret) ==
    [op |-> op, email |-> email, refresh_token |-> refresh_token, ok |-> ok, ret |-> ret]

\* AccountManager::new() over the store of a loaded pool, or ::empty()
AdminInit ==
    /\ \E pool \in LoadedPools \cup {<< >>} :
           /\ accounts = pool
           /\ storage = IF pool = << >> THEN None ELSE Some(StoredFor(pool, 0))
    /\ rate_limits = << >>
    /\ last_used_index = 0
    /\ now = StartNow
    /\ lease = NoLease
    /\ admin = NoAdmin
    /\ ReqIdle
    /\ RepairIdle
    /\ ToolsIdle
    /\ SseIdle
    /\ TasksIdle
    /\ ClientIdle
    /\ LocksIdle

\* AccountManager::add_account; io_ok = FALSE is a failing write of the store
add_account ==
    /\ \E token_pair \in TokenPairs, io_ok \in BOOLEAN :
           LET existing == find(accounts, token_pair.email)
               index == Len(accounts)
           IN  IF IsSome(storage) /\ ~io_ok
               THEN /\ admin' = AdminCall("add_account", token_pair.email,
                                          token_pair.refresh_token, FALSE, FALSE)
                    /\ UNCHANGED <<accounts, storage>>
               ELSE /\ io_ok
                    /\ storage' = IF IsSome(storage)
                                  THEN Some(storage_add_account(Unwrap(storage), token_pair))
                                  ELSE storage
                    /\ accounts' =
                           IF IsSome(existing)
                           THEN [accounts EXCEPT
                                    ![Unwrap(existing)].access_token = token_pair.access_token,
                                    ![Unwrap(existing)].expires_at = token_pair.expires_at,
                                    ![Unwrap(existing)].refresh_token =
                                        token_pair.refresh_token]
                           ELSE Append(accounts,
                                       [index |-> index,
                                        email |-> token_pair.email,
                                        access_token |-> token_pair.access_token,
                                        expires_at |-> token_pair.expires_at,
                                        refresh_token |-> token_pair.refresh_token])
                    /\ admin' = AdminCall("add_account", token_pair.email,
                                          token_pair.refresh_token, TRUE, FALSE)
    /\ UNCHANGED <<rate_limits, last_used_index, now, lease>>
    /\ UNCHANGED <<reqVars, repairVars, toolVars, sseVars, taskVars, clientVars, lockVars>>

\* AccountManager::remove_account
remove_account ==
    /\ \E email \in Emails, io_ok \in BOOLEAN :
           LET result == storage_remove_account(Unwrap(storage), email)
               removed == IF IsSome(storage) THEN result.removed
                          ELSE \E p \in 1 .. Len(accounts) : accounts[p].email = email
           IN  IF IsSome(storage) /\ ~io_ok
               THEN /\ admin' = AdminCall("remove_account", email, "", FALSE, FALSE)
                    /\ UNCHANGED <<accounts, storage>>
               ELSE /\ io_ok
                    /\ storage' = IF IsSome(storage) THEN Some(result.stored) ELSE storage
                    /\ accounts' = IF removed THEN reindex(retain(accounts, email))
                                   ELSE accounts
                    /\ admin' = AdminCall("remove_account", email, "", TRUE, removed)
    /\ UNCHANGED <<rate_limits, last_used_index, now, lease>>
    /\ UNCHANGED <<reqVars, repairVars, toolVars, sseVars, taskVars, clientVars, lockVars>>

\* AccountManager::reload
reload ==
    /\ \E refreshed \in [1 .. NumAccounts + 1 -> BOOLEAN], io_ok \in BOOLEAN :
           IF IsSome(storage) /\ io_ok
           THEN /\ accounts' = load_accounts_from_storage(Unwrap(storage), refreshed)
                /\ admin' = AdminCall("reload", -1, "", TRUE, FALSE)
           ELSE /\ \A p \in DOMAIN refreshed : refreshed[p]
                /\ accounts' = accounts
                /\ admin' = AdminCall("reload", -1, "", ~IsSome(storage), FALSE)
    /\ UNCHANGED storage
    /\ UNCHANGED <<rate_limits, last_used_index, now, lease>>
    /\ UNCHANGED <<reqVars, repairVars, toolVars, sseVars, taskVars, clientVars, lockVars>>

AdminNext ==
    \/ add_account
    \/ remove_account
    \/ reload

SpecAdmin == AdminInit /\ [][AdminNext]_vars

(***************************************************************************)
(* The client's chunk stream (chat_completion_stream, output_stream).      *)
(* The upstream body is a text of lines; a line is the sequence of its      *)
(* pieces ("data: ", the payload), and "\n" ends a line.  The body arrives  *)
(* cut into byte chunks at arbitrary places, possibly ending in a          *)
(* transport error.                                                        *)
(***************************************************************************)
MaxLines == 3

DoneLine == <<"data: ", "[DONE]">>

\* The texts of up to MaxLines lines (the [DONE] line, payload lines with
\* and without the prefix, empty lines); the last line may lack its newline.
SseBodies ==
    LET SseLines ==
            {DoneLine, <<"data: ", "{text}">>, <<"data: ", "{functionCall}">>,
             <<"{text}">>, << >>}
        RECURSIVE text_of(_)
        text_of(lines) ==
            IF lines = << >> THEN << >>
            ELSE (Head(lines) \o <<"\n">>) \o text_of(Tail(lines))
        texts == {text_of(lines) : lines \in SeqsOf(SseLines, 0 .. MaxLines)}
    IN  texts \cup {SubSeq(text, 1, Len(text) - 1) : text \in texts \ {<< >>}}

\* bytes_stream(): the text cut after the positions of cuts, each piece an
\* Ok item, followed by an Err item if the transport fails at the end.
bytes_stream(text, cuts, fails) ==
    LET RECURSIVE pieces(_, _)
        pieces(rest, at) ==
            IF rest = << >> THEN << >>
            ELSE IF at = {} THEN <<[ok |-> TRUE, bytes |-> rest]>>
            ELSE LET c == SetMin(at)
                 IN  <<[ok |-> TRUE, bytes |-> SubSeq(rest, 1, c)]>>
                     \o pieces(SubSeq(rest, c + 1, Len(rest)), {x - c : x \in at \ {c}})
    IN  pieces(text, cuts)
        \o (IF fails THEN <<[ok |-> FALSE, bytes |-> << >>]>> ELSE << >>)

\* The chunks yielded for one line that is not the [DONE] line: a line
\* without the "data: " prefix is parsed as JSON too.
chunks_of(line) ==
    LET data == IF line # << >> /\ Head(line) = "data: " THEN Tail(line) ELSE line
        call == [name |-> "\"read_file\"", args |-> Some(JObject(<< >>))]
    IN  IF data = <<"{text}">>
        THEN <<[ok |-> TRUE, chunk |-> Chunk(<<"text">>, FALSE, FALSE, FALSE)]>>
        ELSE IF data = <<"{functionCall}">>
        THEN <<[ok |-> TRUE,
                chunk |-> Chunk(to_string(function_call_to_tool_use(call)),
                                FALSE, TRUE, FALSE)]>>
        ELSE << >>

\* while let Some(newline_idx) = line_buffer.find('\n') { .. }: the lines
\* taken out of the buffer, the chunks yielded for them and what stays in
\* the buffer; the loop is left at a [DONE] line.
RECURSIVE drain(_)
drain(buffer) ==
    LET newlines == {i \in 1 .. Len(buffer) : buffer[i] = "\n"}
    IN  IF newlines = {}
        THEN [line_buffer |-> buffer, lines |-> << >>, chunks |-> << >>]
        ELSE LET newline_idx == SetMin(newlines)
                 line == SubSeq(buffer, 1, newline_idx - 1)
                 rest == SubSeq(buffer, newline_idx + 1, Len(buffer))
                 later == drain(rest)
             IN  IF line = DoneLine
                 THEN [line_buffer |-> rest, lines |-> <<line>>, chunks |-> << >>]
                 ELSE [line_buffer |-> later.line_buffer,
                       lines |-> <<line>> \o later.lines,
                       chunks |-> chunks_of(line) \o later.chunks]

SseInit ==
    /\ \E text \in SseBodies, fails \in BOOLEAN :
           \E cuts \in SUBSET (1 .. Len(text) - 1) :
               byte_stream = bytes_stream(text, cuts, fails)
    /\ line_buffer = << >>
    /\ lines_read = << >>
    /\ output_stream = << >>
    /\ spc = "open"
    /\ accounts = << >>
    /\ rate_limits = << >>
    /\ last_used_index = 0
    /\ now = StartNow
    /\ lease = NoLease
    /\ ReqIdle
    /\ RepairIdle
    /\ ToolsIdle
    /\ AdminIdle
    /\ TasksIdle
    /\ ClientIdle
    /\ LocksIdle

\* One turn of while let Some(chunk_result) = byte_stream.next().await
NextBytes ==
    /\ spc = "open"
    /\ byte_stream # << >>
    /\ LET chunk_result == Head(byte_stream)
           drained == drain(line_buffer \o chunk_result.bytes)
       IN  IF chunk_result.ok
           THEN /\ line_buffer' = drained.line_buffer
                /\ lines_read' = lines_read \o drained.lines
                /\ output_stream' = output_stream \o drained.chunks
                /\ spc' = "open"
           ELSE /\ output_stream' =
                       Append(output_stream,
                              [ok |-> FALSE, chunk |-> Chunk(<< >>, FALSE, FALSE, FALSE)])
                /\ spc' = "failed"
                /\ UNCHANGED <<line_buffer, lines_read>>
    /\ byte_stream' = Tail(byte_stream)
    /\ UNCHANGED <<poolVars, lease, reqVars, repairVars, toolVars, adminVars, taskVars, clientVars, lockVars>>

\* The body has ended: the final chunk.
EndOfBody ==
    /\ spc = "open"
    /\ byte_stream = << >>
    /\ output_stream' =
           Append(output_stream, [ok |-> TRUE, chunk |-> Chunk(<< >>, FALSE, FALSE, TRUE)])
    /\ spc' = "ended"
    /\ UNCHANGED <<byte_stream, line_buffer, lines_read>>
    /\ UNCHANGED <<poolVars, lease, reqVars, repairVars, toolVars, adminVars, taskVars, clientVars, lockVars>>

SseNext ==
    \/ NextBytes
    \/ EndOfBody

SpecSse == SseInit /\ [][SseNext]_vars

(***************************************************************************)
(* Concurrent leases.  Each task calls one lease operation; the operation  *)
(* takes the write lock of accounts, scans, awaits the token endpoint      *)
(* while it holds the lock, and releases the lock when it returns.         *)
(***************************************************************************)
NumTasks == 2

TaskIds == 1 .. NumTasks

\* The accounts a lease operation passes over for their ledger entry.
skipped_by(op) ==
    CASE op = "for_model_claude" -> limited_for(Claude)
      [] op = "for_model_gemini" -> limited_for(Gemini)
      [] OTHER -> limited_for_any

\* Mutant of can_acquire: the write lock excludes nobody.
can_acquire_always(lock) == TRUE

\* accounts.write().await returns once no other task holds the lock.
can_acquire(lock) == lock = None

\* The guards are dropped when the operation returns.
released(lock, t) == IF lock = Some(t) THEN None ELSE lock

\* How often the token of account index has been replaced: the serial
\* number of the token a refresh request presents.
TokenSerial(index) ==
    Cardinality({i \in 1 .. Len(refresh_log) :
                    refresh_log[i].index = index /\ refresh_log[i].status = "ok"})

TasksInit ==
    /\ accounts \in LoadedPools
    /\ rate_limits \in
           {<< >>,
            0 :> set(NewAccountRateLimits, Claude,
                     [until |-> StartNow + 60, consecutive_count |-> 1])}
    /\ last_used_index \in 0 .. NumAccounts - 1
    /\ now = StartNow
    /\ lease = NoLease
    /\ accounts_lock = None
    /\ tasks = [t \in TaskIds |->
                    [pc |-> "idle", op |-> "any", blocked |-> FALSE, last_used |-> 0,
                     offset |-> 0, ret |-> None]]
    /\ refresh_log = << >>
    /\ ReqIdle
    /\ RepairIdle
    /\ ToolsIdle
    /\ AdminIdle
    /\ SseIdle
    /\ ClientIdle
    /\ LocksIdle

\* A task calls a lease operation and waits for accounts.write().
LeaseCall(t) ==
    /\ tasks[t].pc = "idle"
    /\ \E op \in {"for_model_claude", "for_model_gemini", "any"} :
           tasks' = [tasks EXCEPT ![t].pc = "waiting", ![t].op = op,
                                  ![t].blocked = IsSome(accounts_lock)]
    /\ UNCHANGED <<accounts_lock, refresh_log>>
    /\ UNCHANGED <<poolVars, lease, reqVars, repairVars, toolVars, adminVars, sseVars, clientVars, lockVars>>

\* The task obtains the write lock and reads last_used_index.
LeaseLock(t) ==
    /\ tasks[t].pc = "waiting"
    /\ can_acquire(accounts_lock)
    /\ IF Len(accounts) = 0
       THEN /\ tasks' = [tasks EXCEPT ![t].pc = "done", ![t].ret = None]
            /\ accounts_lock' = accounts_lock
       ELSE /\ tasks' = [tasks EXCEPT ![t].pc = "scan", ![t].last_used = last_used_index,
                                      ![t].offset = 0]
            /\ accounts_lock' = Some(t)
    /\ UNCHANGED refresh_log
    /\ UNCHANGED <<poolVars, lease, reqVars, repairVars, toolVars, adminVars, sseVars, clientVars, lockVars>>

\* One turn of the scan loop up to its await or its return.
LeaseScan(t) ==
    /\ tasks[t].pc = "scan"
    /\ LET account_count == Len(accounts)
           idx == scan_index(tasks[t].last_used, tasks[t].offset, account_count)
       IN  IF tasks[t].offset >= account_count
           THEN /\ tasks' = [tasks EXCEPT ![t].pc = "done", ![t].ret = None]
                /\ accounts_lock' = released(accounts_lock, t)
                /\ UNCHANGED <<last_used_index, refresh_log>>
           ELSE IF idx \in skipped_by(tasks[t].op)
           THEN /\ tasks' = [tasks EXCEPT ![t].offset = @ + 1]
                /\ UNCHANGED <<accounts_lock, last_used_index, refresh_log>>
           ELSE IF needs_refresh(acct(accounts, idx), now)
           THEN /\ tasks' = [tasks EXCEPT ![t].pc = "refresh"]
                /\ refresh_log' = Append(refresh_log,
                                         [task |-> t, index |-> idx,
                                          serial |-> TokenSerial(idx),
                                          status |-> "pending"])
                /\ UNCHANGED <<accounts_lock, last_used_index>>
           ELSE /\ tasks' = [tasks EXCEPT ![t].pc = "done",
                                          ![t].ret = Some(acct(accounts, idx))]
                /\ last_used_index' = idx
                /\ accounts_lock' = released(accounts_lock, t)
                /\ UNCHANGED refresh_log
    /\ UNCHANGED <<accounts, rate_limits, now>>
    /\ UNCHANGED <<lease, reqVars, repairVars, toolVars, adminVars, sseVars, clientVars, lockVars>>

\* The token endpoint answers the task's refresh request.
LeaseRefreshed(t) ==
    /\ tasks[t].pc = "refresh"
    /\ \E outcome \in RefreshOutcomes :
           LET idx == scan_index(tasks[t].last_used, tasks[t].offset, Len(accounts))
               account == acct(accounts, idx)
               refreshed == apply_refresh(account,
                                          refresh_access_token(account, outcome, now))
               request == CHOOSE i \in 1 .. Len(refresh_log) :
                              refresh_log[i].task = t /\ refresh_log[i].status = "pending"
           IN  IF outcome.ok
               THEN /\ accounts' = [accounts EXCEPT ![idx + 1] = refreshed]
                    /\ last_used_index' = idx
                    /\ tasks' = [tasks EXCEPT ![t].pc = "done", ![t].ret = Some(refreshed)]
                    /\ accounts_lock' = released(accounts_lock, t)
                    /\ refresh_log' = [refresh_log EXCEPT ![request].status = "ok"]
               ELSE /\ tasks' = [tasks EXCEPT ![t].pc = "scan", ![t].offset = @ + 1]
                    /\ refresh_log' = [refresh_log EXCEPT ![request].status = "err"]
                    /\ UNCHANGED <<accounts, last_used_index, accounts_lock>>
    /\ UNCHANGED <<rate_limits, now>>
    /\ UNCHANGED <<lease, reqVars, repairVars, toolVars, adminVars, sseVars, clientVars, lockVars>>

TasksNext ==
    \E t \in TaskIds :
        \/ LeaseCall(t)
        \/ LeaseLock(t)
        \/ LeaseScan(t)
        \/ LeaseRefreshed(t)

SpecTasks == TasksInit /\ [][TasksNext]_vars

(***************************************************************************)
(* SpecLedger: the rate-limit ledger next to the administration of the     *)
(* pool.  mark_rate_limited, clear_rate_limit and the wait-time query in   *)
(* any order with add_account and remove_account; admin holds the last     *)
(* call with its arguments and its return value.                           *)
(***************************************************************************)
LedgerMark ==
    /\ \E index \in 0 .. Len(accounts) - 1, family \in ModelFamily, secs \in {30, 60} :
           /\ MarksHeld(DOMAIN rate_limits) < MaxMarks
           /\ rate_limits' = mark_rate_limited(index, family, now + secs)
           /\ admin' = [op |-> "mark_rate_limited", index |-> index, family |-> family,
                        until |-> now + secs]
    /\ UNCHANGED <<accounts, last_used_index, now, lease, storage>>
    /\ UNCHANGED <<reqVars, repairVars, toolVars, sseVars, taskVars, clientVars, lockVars>>

LedgerClear ==
    /\ \E index \in 0 .. NumAccounts, family \in ModelFamily :
           /\ rate_limits' = clear_rate_limit(index, family)
           /\ admin' = [op |-> "clear_rate_limit", index |-> index, family |-> family]
    /\ UNCHANGED <<accounts, last_used_index, now, lease, storage>>
    /\ UNCHANGED <<reqVars, repairVars, toolVars, sseVars, taskVars, clientVars, lockVars>>

LedgerMinWait ==
    /\ \E model_id \in PoolModelIds :
           admin' = [op |-> "get_min_wait_time_for_model", model_id |-> model_id,
                     ret |-> get_min_wait_time_for_model(model_id)]
    /\ UNCHANGED <<accounts, rate_limits, last_used_index, now, lease, storage>>
    /\ UNCHANGED <<reqVars, repairVars, toolVars, sseVars, taskVars, clientVars, lockVars>>

\* Utc::now() moves on between two calls.
LedgerTick ==
    /\ now + TickSecs <= MaxNow
    /\ now' = now + TickSecs
    /\ admin' = NoAdmin
    /\ UNCHANGED <<accounts, rate_limits, last_used_index, lease, storage>>
    /\ UNCHANGED <<reqVars, repairVars, toolVars, sseVars, taskVars, clientVars, lockVars>>

LedgerNext ==
    \/ add_account
    \/ remove_account
    \/ LedgerMark
    \/ LedgerClear
    \/ LedgerMinWait
    \/ LedgerTick

SpecLedger == AdminInit /\ [][LedgerNext]_vars

(***************************************************************************)
(* SpecClient: one chat_completion_stream call of an AntigravityClient     *)
(* (browser-automator/src/antigravity.rs): the client is constructed, its  *)
(* header style may be switched, and the call discovers the project,       *)
(* builds the request body, sends one request and classifies the status    *)
(* of the response.                                                        *)
(***************************************************************************)
\* A u32 is held as its two 16-bit halves: the value is hi * 65536 + lo.
U16 == 65536

u32(hi, lo) == [hi |-> hi, lo |-> lo]

\* a <= b on u32 values
u32_le(a, b) == a.hi < b.hi \/ (a.hi = b.hi /\ a.lo <= b.lo)

\* a + b of two u32 values: the sum modulo 2^32 and whether it overflowed
u32_add(a, b) ==
    LET lo == a.lo + b.lo
        hi == a.hi + b.hi + (IF lo >= U16 THEN 1 ELSE 0)
    IN  [value |-> u32(hi % U16, lo % U16), overflow |-> hi >= U16]

ANTIGRAVITY_ENDPOINTS == <<"daily-sandbox", "autopush-sandbox", "production">>

\* ANTIGRAVITY_ENDPOINTS.get(idx).copied().unwrap_or(ANTIGRAVITY_ENDPOINTS[0])
current_endpoint(c) ==
    IF c.endpoint_index + 1 \in DOMAIN ANTIGRAVITY_ENDPOINTS
    THEN ANTIGRAVITY_ENDPOINTS[c.endpoint_index + 1]
    ELSE ANTIGRAVITY_ENDPOINTS[1]

\* try_next_endpoint: the client afterwards and the returned flag.  The
\* function has no caller in the crate.
try_next_endpoint(c) ==
    IF c.endpoint_index + 1 < Len(ANTIGRAVITY_ENDPOINTS)
    THEN [ret |-> TRUE, client |-> [c EXCEPT !.endpoint_index = c.endpoint_index + 1]]
    ELSE [ret |-> FALSE, client |-> c]

\* fetch_provisioned_project_id: loadCodeAssist is tried on the endpoints in
\* order; discovered is the index of the first endpoint that answered with a
\* project id, if any.
fetch_provisioned_project_id(c, discovered) ==
    IF c.force_project_id \/ discovered = None THEN c
    ELSE [c EXCEPT !.endpoint_index = Unwrap(discovered)]

supports_thinking(model) ==
    model \in {"ClaudeSonnet45Thinking", "ClaudeOpus45Thinking", "Gemini3Pro", "Gemini3Flash"}

default_thinking_budget(model) ==
    CASE model = "ClaudeSonnet45Thinking" -> Some(u32(0, 8192))
      [] model = "ClaudeOpus45Thinking" -> Some(u32(0, 16384))
      [] OTHER -> None

\* build_request_body: generationConfig.  budget is a u32 and budget + 8192
\* is a u32 addition: on overflow a build with overflow checks panics and a
\* build without them wraps around.
generation_config(model, thinking, overflow_checks) ==
    LET budget == IF thinking = None THEN None
                  ELSE IF IsSome(Unwrap(thinking).budget) THEN Unwrap(thinking).budget
                  ELSE default_thinking_budget(model)
        max_tokens == u32(0, 8192)
    IN  IF ~(supports_thinking(model) /\ is_claude(model) /\ IsSome(budget))
        THEN [panic |-> FALSE, maxOutputTokens |-> max_tokens, thinkingBudget |-> None]
        ELSE IF u32_le(max_tokens, Unwrap(budget))
        THEN LET sum == u32_add(Unwrap(budget), u32(0, 8192))
             IN  IF sum.overflow /\ overflow_checks
                 THEN [panic |-> TRUE, maxOutputTokens |-> max_tokens,
                       thinkingBudget |-> budget]
                 ELSE [panic |-> FALSE, maxOutputTokens |-> sum.value,
                       thinkingBudget |-> budget]
        ELSE [panic |-> FALSE, maxOutputTokens |-> max_tokens, thinkingBudget |-> budget]

\* Mutant of extract_retry_from_error: no pattern ever matches.
extract_retry_never(error_text) == None

\* extract_retry_from_error over the body texts of the model: the seconds of
\* the first pattern that matches, case-insensitively.
extract_retry_from_error(error_text) ==
    CASE error_text = "Retry after 30s" -> Some(30)
      [] error_text = "Quota exceeded, try again in 5 seconds" -> Some(5)
      [] OTHER -> None

\* chat_completion_stream on a response whose status is not a success:
\* retry_after is the value of the retry-after header, if the response has one.
status_error(status, retry_after, error_text) ==
    LET parse_u64 == CASE retry_after = Some("0") -> Some(0)
                       [] retry_after = Some("20") -> Some(20)
                       [] OTHER -> None
        unwrap_or(default) == IF IsSome(parse_u64) THEN Unwrap(parse_u64) ELSE default
        extracted == extract_retry_from_error(error_text)
    IN  IF status = 429
        THEN [ok |-> FALSE, prefix |-> "RATE_LIMITED",
              secs |-> unwrap_or(IF IsSome(extracted) THEN Unwrap(extracted) ELSE 60),
              text |-> error_text]
        ELSE IF status = 503 \/ status = 529
        THEN [ok |-> FALSE, prefix |-> "CAPACITY_ERROR", secs |-> unwrap_or(45),
              text |-> error_text]
        ELSE IF status = 403 /\ error_text = "Permission denied on generateChat"
        THEN [ok |-> FALSE, prefix |-> "IAM_PERMISSION_DENIED", secs |-> 0,
              text |-> error_text]
        ELSE [ok |-> FALSE, prefix |-> "API error", secs |-> 0, text |-> error_text]

ClientInit ==
    /\ accounts = << >>
    /\ rate_limits = << >>
    /\ last_used_index = 0
    /\ now = StartNow
    /\ lease = NoLease
    /\ ReqIdle
    /\ RepairIdle
    /\ ToolsIdle
    /\ AdminIdle
    /\ SseIdle
    /\ TasksIdle
    /\ ClientIdle
    /\ LocksIdle

\* AntigravityClient::new(access_token, project_id, fingerprint): a project id
\* given by the caller is forced.
ClientNew ==
    /\ http_client = None
    /\ \E force \in BOOLEAN :
           http_client' = Some([client |-> AntigravityClient_new.client,
                                header_style |-> AntigravityClient_new.header_style,
                                endpoint_index |-> AntigravityClient_new.endpoint_index,
                                force_project_id |-> force])
    /\ UNCHANGED <<requests, cresult>>
    /\ UNCHANGED <<poolVars, lease, reqVars, repairVars, toolVars, adminVars, sseVars,
                   taskVars, lockVars>>

\* The caller switches the client to the Gemini CLI headers.
SwitchHeaders ==
    /\ IsSome(http_client)
    /\ cresult = None
    /\ http_client' = Some(switch_to_gemini_cli_headers(Unwrap(http_client)))
    /\ UNCHANGED <<requests, cresult>>
    /\ UNCHANGED <<poolVars, lease, reqVars, repairVars, toolVars, adminVars, sseVars,
                   taskVars, lockVars>>

\* chat_completion_stream up to its return value.
ChatCompletionStream ==
    /\ IsSome(http_client)
    /\ cresult = None
    /\ \E discovered \in {None} \cup {Some(i) : i \in 0 .. Len(ANTIGRAVITY_ENDPOINTS) - 1},
          model \in {"ClaudeSonnet45Thinking", "ClaudeOpus45Thinking", "Gemini3Pro"},
          budget \in {None}
                     \cup {Some(u32(0, lo)) : lo \in {0, 1024, 8191, 8192, 8193}}
                     \cup {Some(u32(U16 - 1, lo)) : lo \in {U16 - 8193, U16 - 8192, U16 - 1}},
          thinking_on \in BOOLEAN,
          overflow_checks \in BOOLEAN,
          status \in {200, 400, 403, 429, 500, 502, 503, 529},
          retry_after \in {None, Some("0"), Some("20"), Some("soon")},
          error_text \in {"Rate limit exceeded", "Retry after 30s",
                          "Quota exceeded, try again in 5 seconds",
                          "Permission denied on generateChat"} :
           LET c == fetch_provisioned_project_id(Unwrap(http_client), discovered)
               thinking == IF thinking_on THEN Some([budget |-> budget]) ELSE None
               body == generation_config(model, thinking, overflow_checks)
               request == [endpoint |-> current_endpoint(c),
                           headers |-> request_headers(c),
                           model |-> model,
                           budget |-> IF thinking_on THEN budget ELSE None,
                           generationConfig |-> body,
                           response |-> [status |-> status, retry_after |-> retry_after,
                                         text |-> error_text]]
           IN  /\ thinking_on \/ budget = None
               /\ http_client' = Some(c)
               /\ IF body.panic
                  THEN /\ requests' = requests
                       /\ cresult' = Some([ok |-> FALSE, prefix |-> "panic", secs |-> 0,
                                           text |-> ""])
                  ELSE /\ requests' = Append(requests, request)
                       /\ cresult' = Some(IF status \in 200 .. 299
                                          THEN [ok |-> TRUE, prefix |-> "", secs |-> 0,
                                                text |-> ""]
                                          ELSE status_error(status, retry_after, error_text))
    /\ UNCHANGED <<poolVars, lease, reqVars, repairVars, toolVars, adminVars, sseVars,
                   taskVars, lockVars>>

ClientNext ==
    \/ ClientNew
    \/ SwitchHeaders
    \/ ChatCompletionStream

SpecClient == ClientInit /\ [][ClientNext]_vars

(***************************************************************************)
(* SpecLocks: the lock acquisitions of concurrent AccountManager calls.    *)
(* accounts and rate_limits are tokio RwLocks: a write lock needs the lock *)
(* free of writer and readers, a read lock needs it free of a writer.      *)
(* Each task makes one call; a call takes its locks in the order of its    *)
(* code and releases them when it returns.                                 *)
(***************************************************************************)
LocksInit ==
    /\ accounts \in LoadedPools
    /\ rate_limits = << >>
    /\ last_used_index = 0
    /\ now = StartNow
    /\ lease = NoLease
    /\ accounts_lock = None
    /\ tasks = [t \in TaskIds |-> [pc |-> "idle", op |-> "none"]]
    /\ refresh_log = << >>
    /\ rate_limits_lock = [writer |-> None, readers |-> {}]
    /\ accounts_readers = {}
    /\ ReqIdle
    /\ RepairIdle
    /\ ToolsIdle
    /\ AdminIdle
    /\ SseIdle
    /\ ClientIdle

\* A task calls an operation and reaches its first lock acquisition:
\* accounts.write() in the lease operations, rate_limits.write() in
\* mark_rate_limited and clear_rate_limit, rate_limits.read() in
\* get_min_wait_time_for_model.
LockCall(t) ==
    /\ tasks[t].pc = "idle"
    /\ \E op \in {"get_available_account_for_model", "get_available_account",
                  "mark_rate_limited", "clear_rate_limit", "get_min_wait_time_for_model"} :
           tasks' = [tasks EXCEPT ![t] =
                        [pc |-> CASE op \in {"get_available_account_for_model",
                                             "get_available_account"} -> "accounts_write"
                                  [] op \in {"mark_rate_limited", "clear_rate_limit"} ->
                                         "rate_limits_write"
                                  [] OTHER -> "rate_limits_read",
                         op |-> op]]
    /\ UNCHANGED <<accounts_lock, refresh_log, lockVars>>
    /\ UNCHANGED <<poolVars, lease, reqVars, repairVars, toolVars, adminVars, sseVars,
                   clientVars>>

\* let mut accounts = self.accounts.write().await;
AcquireAccountsWrite(t) ==
    /\ tasks[t].pc = "accounts_write"
    /\ accounts_lock = None
    /\ accounts_readers = {}
    /\ accounts_lock' = Some(t)
    /\ tasks' = [tasks EXCEPT ![t].pc = "rate_limits_read"]
    /\ UNCHANGED <<refresh_log, lockVars>>
    /\ UNCHANGED <<poolVars, lease, reqVars, repairVars, toolVars, adminVars, sseVars,
                   clientVars>>

\* let rate_limits = self.rate_limits.read().await;
AcquireRateLimitsRead(t) ==
    /\ tasks[t].pc = "rate_limits_read"
    /\ rate_limits_lock.writer = None
    /\ rate_limits_lock' = [rate_limits_lock EXCEPT !.readers = @ \cup {t}]
    /\ tasks' = [tasks EXCEPT ![t].pc =
                    IF tasks[t].op = "get_min_wait_time_for_model" THEN "accounts_read"
                    ELSE "return"]
    /\ UNCHANGED <<accounts_lock, refresh_log, accounts_readers>>
    /\ UNCHANGED <<poolVars, lease, reqVars, repairVars, toolVars, adminVars, sseVars,
                   clientVars>>

\* let mut rate_limits = self.rate_limits.write().await;
AcquireRateLimitsWrite(t) ==
    /\ tasks[t].pc = "rate_limits_write"
    /\ rate_limits_lock = [writer |-> None, readers |-> {}]
    /\ rate_limits_lock' = [writer |-> Some(t), readers |-> {}]
    /\ tasks' = [tasks EXCEPT ![t].pc =
                    IF tasks[t].op = "mark_rate_limited" THEN "accounts_read" ELSE "return"]
    /\ UNCHANGED <<accounts_lock, refresh_log, accounts_readers>>
    /\ UNCHANGED <<poolVars, lease, reqVars, repairVars, toolVars, adminVars, sseVars,
                   clientVars>>

\* self.accounts.read().await, with the rate_limits guard still held
AcquireAccountsRead(t) ==
    /\ tasks[t].pc = "accounts_read"
    /\ accounts_lock = None
    /\ accounts_readers' = accounts_readers \cup {t}
    /\ tasks' = [tasks EXCEPT ![t].pc = "return"]
    /\ UNCHANGED <<accounts_lock, refresh_log, rate_limits_lock>>
    /\ UNCHANGED <<poolVars, lease, reqVars, repairVars, toolVars, adminVars, sseVars,
                   clientVars>>

\* The call returns: its guards are dropped.
LockReturn(t) ==
    /\ tasks[t].pc = "return"
    /\ accounts_lock' = IF accounts_lock = Some(t) THEN None ELSE accounts_lock
    /\ accounts_readers' = accounts_readers \ {t}
    /\ rate_limits_lock' =
           [writer |-> IF rate_limits_lock.writer = Some(t) THEN None
                       ELSE rate_limits_lock.writer,
            readers |-> rate_limits_lock.readers \ {t}]
    /\ tasks' = [tasks EXCEPT ![t].pc = "done"]
    /\ UNCHANGED refresh_log
    /\ UNCHANGED <<poolVars, lease, reqVars, repairVars, toolVars, adminVars, sseVars,
                   clientVars>>

LocksNext ==
    \E t \in TaskIds :
        \/ LockCall(t)
        \/ AcquireAccountsWrite(t)
        \/ AcquireRateLimitsRead(t)
        \/ AcquireRateLimitsWrite(t)
        \/ AcquireAccountsRead(t)
        \/ LockReturn(t)

SpecLocks == LocksInit /\ [][LocksNext]_vars


\* ---------------------------------------------------------------------------
\* The streaming handler under fair scheduling.  The handler is a future
\* polled to completion by the runtime, and each upstream call, each refresh
\* call and each sleep it awaits returns, so a handler step that stays enabled
\* is eventually taken.  The arrival of the request and the marks left by
\* earlier requests are not forced.
\* ---------------------------------------------------------------------------
StreamingStart == ReqStart /\ req'.endpoint = "messages" /\ req'.stream

StreamingStep ==
    \/ StreamOpen
    \/ Acquire
    \/ Client
    \/ StreamRequest
    \/ StreamStrategy1
    \/ StreamChunk

StreamingNext ==
    \/ EarlierMark
    \/ StreamingStart
    \/ StreamingStep

SpecReqLive == ReqInit /\ [][StreamingNext]_vars /\ WF_vars(StreamingStep)
(***************************************************************************)
(*                               CLAIMS                                    *)
(***************************************************************************)

\* The ledger holds an entry for (index, family) whose until is in the future.
ActiveEntry(index, family) ==
    /\ index \in DOMAIN rate_limits
    /\ \E info \in (IF family = Claude THEN rate_limits[index].claude
                    ELSE rate_limits[index].gemini) : now < info.until

OtherFamily(family) == IF family = Claude THEN Gemini ELSE Claude

\* C4: rate-limit isolation in the pool.  An account returned by
\* get_available_account_for_model for a model of family F has no active
\* ledger entry for F (it is never returned before the marked time t), and
\* the lease comes back empty only when every account has an active entry
\* for F or a token that needs a refresh: an entry for the other family
\* alone never withholds an account.
C4_PoolIsolation ==
    lease.op = "for_model" =>
        /\ \A a \in lease.ret : ~ActiveEntry(a.index, lease.family)
        /\ lease.ret = None =>
               \A p \in 1 .. Len(accounts) :
                   \/ ActiveEntry(accounts[p].index, lease.family)
                   \/ now + 300 >= accounts[p].expires_at

\* C4 witness: a lease for one family returned an account that carries an
\* active entry for the other family and none for the leased one.
C4_Witness ==
    /\ lease.op = "for_model"
    /\ \E a \in lease.ret :
           /\ ActiveEntry(a.index, OtherFamily(lease.family))
           /\ get(rate_limits[a.index], lease.family) = None

\* C7: token freshness on lease.  Whenever one of the three lease operations
\* returns an account, now + 5 min < expires_at of that account, whatever
\* the token endpoint answered.
C7_TokenFreshOnLease ==
    \A a \in lease.ret : now + 300 < a.expires_at

(***************************************************************************)
(* Claims about the event sequence of messages_streaming                   *)
(***************************************************************************)
Streaming == pc # "idle" /\ req.endpoint = "messages" /\ req.stream

EventIs(i, type) == events[i].type = type

\* The stops of block index idx among events lo .. hi.
StopsOf(idx, lo, hi) ==
    {j \in lo .. hi : EventIs(j, "content_block_stop") /\ events[j].index = idx}

\* C1: in the finished stream every content_block_start is matched by
\* exactly one later content_block_stop at the same index, message_start is
\* the first event and the only one of its type, and message_stop, when
\* emitted, comes after every content_block_stop.
C1_StreamWellFormed ==
    (Streaming /\ pc = "done") =>
        /\ EventIs(1, "message_start")
        /\ \A i \in 2 .. Len(events) : ~EventIs(i, "message_start")
        /\ \A i \in 1 .. Len(events) :
               EventIs(i, "content_block_start") =>
                   Cardinality(StopsOf(events[i].index, i + 1, Len(events))) = 1
        /\ \A i \in 1 .. Len(events) :
               EventIs(i, "message_stop") =>
                   \A j \in i + 1 .. Len(events) : ~EventIs(j, "content_block_stop")

\* C2: when an error event is emitted, every content block started before
\* it has been stopped before it.
C2_NoOpenBlockAtError ==
    Streaming =>
        \A i \in 1 .. Len(events) :
            EventIs(i, "error") =>
                \A j \in 1 .. i - 1 :
                    EventIs(j, "content_block_start") =>
                        StopsOf(events[j].index, j + 1, i - 1) # {}

\* C3: an error event is terminal.  In every state of the stream an error
\* event is the last event emitted and the handler has returned, so no
\* event of any kind follows it, and no stream holds both an error and a
\* message_stop.
C3_ErrorTerminal ==
    Streaming =>
        \A i \in 1 .. Len(events) :
            EventIs(i, "error") =>
                /\ i = Len(events)
                /\ pc = "done"
                /\ \A j \in 1 .. Len(events) :
                       ~EventIs(j, "message_stop") /\ ~EventIs(j, "message_delta")

\* C3 witness: the stream ended with an error in the middle of the body,
\* after response text had been sent.
C3_Witness ==
    /\ Streaming /\ pc = "done"
    /\ EventIs(Len(events), "error")
    /\ hs.chunks > 0

\* C8: message_start is the first event of the stream, and it has been
\* emitted by the time the handler makes its first account-pool call or its
\* first upstream request.
C8_MessageStartFirst ==
    Streaming =>
        /\ events # << >> => EventIs(1, "message_start")
        /\ (pool_calls # << >> \/ calls # << >>) =>
               (events # << >> /\ EventIs(1, "message_start"))

\* C8 witness: a stream that has leased an account and called upstream.
C8_Witness ==
    /\ Streaming
    /\ pool_calls # << >> /\ calls # << >>
    /\ EventIs(1, "message_start")

(***************************************************************************)
(* Claims about the handlers and the ledger                                *)
(***************************************************************************)
\* Accounts whose token is fresh and that have no active entry for family.
AvailableFor(family) ==
    {accounts[p].index : p \in {q \in 1 .. Len(accounts) :
                                   /\ now + 300 < accounts[q].expires_at
                                   /\ ~ActiveEntry(accounts[q].index, family)}}

\* C5: a rate limit of one family never blocks a request of the other
\* family.  Whenever a handler runs its acquisition loop for a target model
\* of family F while some account with a fresh token has no active entry
\* for F, the iteration leases an account without an active entry for F and
\* goes on to call upstream with the model unchanged: it does not queue,
\* spoof, or answer 429 or 401.
C5_HandlerIsolation ==
    [][(pc = "acquire" /\ AvailableFor(family_of(hs.model)) # {}) =>
           /\ pc' = "client"
           /\ hs'.model = hs.model
           /\ \E a \in hs'.account : ~ActiveEntry(a.index, family_of(hs.model))]_vars

HasEntry(index, family) ==
    /\ index \in DOMAIN rate_limits
    /\ (IF family = Claude THEN rate_limits[index].claude
        ELSE rate_limits[index].gemini) # {}

ClearInvoked == \E i \in 1 .. Len(pool_calls) : pool_calls[i].op = "clear_rate_limit"

\* The request went beyond its primary call: an upstream call with another
\* model than the one the request maps to, with the alternate headers, or on
\* another account than the first call's.
FallbackUsed ==
    \E i \in 1 .. Len(calls) :
        \/ calls[i].model # map_anthropic_to_antigravity(req.model)
        \/ calls[i].style # "antigravity"
        \/ calls[i].account # calls[1].account

Succeeded ==
    IF req.stream THEN events # << >> /\ EventIs(Len(events), "message_stop")
    ELSE \E r \in response : r.status = 200

\* C6: no clear on fallback, in the non-streaming and the streaming
\* /v1/messages handler.  A request invokes clear_rate_limit only if it used
\* no fallback, and when a request that used a fallback completes with
\* success every ledger entry it marked is still present.
C6_NoClearOnFallback ==
    (pc # "idle" /\ req.endpoint = "messages") =>
        /\ ClearInvoked => ~FallbackUsed
        /\ (pc = "done" /\ Succeeded /\ FallbackUsed) =>
               \A i \in 1 .. Len(pool_calls) :
                   pool_calls[i].op = "mark_rate_limited" =>
                       HasEntry(pool_calls[i].index, pool_calls[i].family)

(***************************************************************************)
(* Claims about session repair                                             *)
(***************************************************************************)
Repaired == Unwrap(rec1).messages

IsSynthetic(msg) == msg.is_array /\ \E k \in 1 .. Len(msg.blocks) : msg.blocks[k].synthetic

\* The place in the repaired conversation of the i-th message of the input:
\* the i-th message that is not synthetic.
ImageOf(i) ==
    CHOOSE p \in 1 .. Len(Repaired) :
        /\ ~IsSynthetic(Repaired[p])
        /\ Cardinality({q \in 1 .. p : ~IsSynthetic(Repaired[q])}) = i

\* The synthetic messages that directly follow the image of input message i
\* and carry a tool_result for tool id t.
SyntheticAfter(i, t) ==
    {p \in ImageOf(i) + 1 .. Len(Repaired) :
        /\ \A q \in ImageOf(i) + 1 .. p : IsSynthetic(Repaired[q])
        /\ Repaired[p].role = "user"
        /\ \E k \in 1 .. Len(Repaired[p].blocks) :
               /\ Repaired[p].blocks[k].type = "tool_result"
               /\ Repaired[p].blocks[k].id = t}

\* Input message i + 1 is a user message carrying a tool_result for t.
FollowedByResult(i, t) ==
    /\ i + 1 <= Len(msgs)
    /\ msgs[i + 1].role = "user"
    /\ msgs[i + 1].is_array
    /\ \E k \in 1 .. Len(msgs[i + 1].blocks) :
           /\ msgs[i + 1].blocks[k].type = "tool_result"
           /\ msgs[i + 1].blocks[k].id = t

\* The named tool_use blocks with id t in input message i.
ToolUses(i, t) ==
    {k \in 1 .. Len(msgs[i].blocks) :
        /\ msgs[i].blocks[k].type = "tool_use"
        /\ msgs[i].blocks[k].id = t
        /\ msgs[i].blocks[k].has_name}

\* C9: tool-result insertion.  For every tool_use block with id t of an
\* assistant message that is not followed by a user message carrying a
\* tool_result for t, the repaired conversation holds one synthetic user
\* message with a tool_result for t per such block directly after that
\* assistant message; for a tool_use block followed by its matching
\* tool_result no synthetic message is inserted.
C9_ToolResultInserted ==
    rpc # "idle" =>
        \A i \in 1 .. Len(msgs), t \in ToolIds :
            (msgs[i].role = "assistant" /\ msgs[i].is_array /\ ToolUses(i, t) # {}) =>
                IF FollowedByResult(i, t)
                THEN SyntheticAfter(i, t) = {}
                ELSE Cardinality(SyntheticAfter(i, t)) = Cardinality(ToolUses(i, t))

\* C10: session repair is idempotent.  The second application returns the
\* messages of the first unchanged and reports was_recovered = false.
C10_RepairIdempotent ==
    rpc = "twice" =>
        /\ Unwrap(rec2).messages = Unwrap(rec1).messages
        /\ ~Unwrap(rec2).was_recovered

\* C10 witness: the first application inserted a synthetic result and
\* removed a corrupted thinking block, and the repair was applied again.
C10_Witness ==
    /\ rpc = "twice"
    /\ Unwrap(rec1).was_recovered
    /\ Len(Unwrap(rec1).messages) > Len(msgs)
    /\ \E i \in 1 .. Len(msgs) : removed_thinking(msgs[i])


\* The keys the upstream API forbids in a tool schema.
ForbiddenKeys ==
    {"$schema", "$id", "$ref", "$defs", "definitions", "default", "examples",
     "title", "minLength", "maxLength", "pattern", "format", "minimum",
     "maximum", "exclusiveMinimum", "exclusiveMaximum", "multipleOf",
     "minItems", "maxItems", "uniqueItems", "minProperties", "maxProperties",
     "propertyNames", "contentMediaType", "contentEncoding",
     "additionalProperties"}

\* A forbidden key occurs as a keyword of the schema or of a schema nested in
\* it (the names of declared properties are not keywords).
RECURSIVE HasForbiddenKey(_)
HasForbiddenKey(schema) ==
    /\ schema.kind = "object"
    /\ \/ DOMAIN schema.fields \cap ForbiddenKeys # {}
       \/ \E key \in DOMAIN schema.fields :
              LET value == schema.fields[key]
              IN  \/ /\ key = "properties"
                     /\ value.kind = "object"
                     /\ \E p \in DOMAIN value.fields : HasForbiddenKey(value.fields[p])
                  \/ /\ key = "items"
                     /\ HasForbiddenKey(value)
                  \/ /\ key \in {"allOf", "anyOf", "oneOf"}
                     /\ value.kind = "array"
                     /\ \E i \in DOMAIN value.elems : HasForbiddenKey(value.elems[i])

\* C11: the parameters schema sent upstream (after convert_anthropic_tools and
\* the client's sanitize_tool_definition) holds no forbidden key as a schema
\* keyword at any nesting depth.
C11_NoForbiddenKeySent ==
    tpc = "sent" => ~HasForbiddenKey(Unwrap(parameters))

\* The schemas declared under "properties" of a schema.
PropertiesOf(schema) ==
    IF /\ schema.kind = "object"
       /\ "properties" \in DOMAIN schema.fields
       /\ schema.fields["properties"].kind = "object"
    THEN schema.fields["properties"].fields
    ELSE << >>

\* C12: a property whose input schema holds const: X reaches the upstream
\* request body without a const key and with enum equal to [X].
C12_ConstBecomesEnum ==
    tpc = "sent" =>
        \A p \in DOMAIN PropertiesOf(Unwrap(input_schema)) :
            LET given == PropertiesOf(Unwrap(input_schema))[p]
                sent == PropertiesOf(Unwrap(parameters))
            IN  (given.kind = "object" /\ "const" \in DOMAIN given.fields) =>
                    /\ p \in DOMAIN sent
                    /\ "const" \notin DOMAIN sent[p].fields
                    /\ "enum" \in DOMAIN sent[p].fields
                    /\ sent[p].fields["enum"] = JArray(<<given.fields["const"]>>)

\* Every account of a non-empty pool carries a ledger entry for the family
\* whose until lies more than the wait cap ahead.
MarkedBeyondCap(family) ==
    /\ Len(accounts) > 0
    /\ \A p \in 1 .. Len(accounts) :
           /\ accounts[p].index \in DOMAIN rate_limits
           /\ \E info \in (IF family = Claude THEN rate_limits[accounts[p].index].claude
                           ELSE rate_limits[accounts[p].index].gemini) :
                  info.until > now + WaitCapSecs

\* C13: wait-cap abort.  When every account is marked for the family of the
\* target model until more than 600 s ahead, the acquisition step of a
\* (non-streaming) /v1/messages request ends the request with HTTP 429
\* carrying a Retry-After header, without sleeping and without issuing an
\* upstream request.
C13_WaitCapAbort ==
    [][(/\ pc = "acquire"
        /\ req.endpoint = "messages"
        /\ ~req.stream
        /\ MarkedBeyondCap(family_of(hs.model))) =>
           /\ pc' = "done"
           /\ \E r \in response' : r.status = 429 /\ "retry-after" \in r.headers
           /\ now' = now
           /\ calls' = calls]_vars

\* The acquisition loop swapped the model for its spoof model (Strategy 0).
Strategy0Taken ==
    /\ req.endpoint = "messages"
    /\ pc \notin {"idle", "stream_open", "acquire"}
    /\ hs.account # None
    /\ hs.model # hs.original_model

\* C14: Strategy 0 in the streaming and the non-streaming /v1/messages
\* handler.  Once the handler proceeds with the spoof model on an account
\* obtained ignoring the ledger, the request counts as having used a
\* fallback (used_fallback = true), its first upstream call carries the spoof
\* model on that account, and its success clears no ledger entry.
C14_Strategy0UsesFallback ==
    Strategy0Taken =>
        /\ hs.used_fallback
        /\ hs.model = Unwrap(get_spoof_model(hs.original_model))
        /\ calls # << >> =>
               /\ calls[1].model = hs.model
               /\ \E a \in hs.account : calls[1].account = a.index
        /\ Succeeded => ~ClearInvoked

\* Upstream call j repeats call i: same account, same model, same headers.
SameCall(i, j) ==
    /\ calls[j].account = calls[i].account
    /\ calls[j].model = calls[i].model
    /\ calls[j].style = calls[i].style

\* C15: session-repair retry of a /v1/messages request.  When the first
\* upstream call failed with a text holding one of the five patterns (in any
\* letter case), the finished request made exactly one more call, a repeat of
\* the first on the same account and model, and a failure of that retry is
\* the request's result; when the first call failed with another text, no
\* later call repeats it.
C15_RepairRetryOnce ==
    (req.endpoint = "messages" /\ pc = "done" /\ calls # << >> /\ ~calls[1].result.ok) =>
        IF is_recoverable_error(calls[1].result)
        THEN /\ Len(calls) = 2
             /\ SameCall(1, 2)
             /\ ~calls[2].result.ok => ~Succeeded
        ELSE \A j \in 2 .. Len(calls) : ~SameCall(1, j)

\* The ledger entries of (index, family): at most one.
EntryOf(index, family) ==
    IF index \notin DOMAIN rate_limits THEN {}
    ELSE IF family = Claude THEN rate_limits[index].claude
    ELSE rate_limits[index].gemini

\* C16: every upstream RATE_LIMITED or CAPACITY answer is recorded against
\* the (account, family) that produced it.  When a /v1/messages request has
\* finished, each of its upstream calls that was answered RATE_LIMITED or
\* CAPACITY_ERROR (primary, Strategy 1 on the same account with the spoof
\* model, Strategy 2 on the other account) has left an entry on the called
\* account for the family of the model that was sent, lasting at least the
\* reported retry-after.
C16_MarkWhereProduced ==
    (req.endpoint = "messages" /\ ~req.stream /\ pc = "done") =>
        \A i \in 1 .. Len(calls) :
            is_rate_or_capacity(calls[i].result) =>
                \E info \in EntryOf(calls[i].account, family_of(calls[i].model)) :
                    info.until >= now + calls[i].result.secs

\* C17: capacity floor.  Whenever a handler step marks an account, the entry
\* it stores depends on the upstream response the marked error came from: for
\* a 503/529 response until = now + max(retry-after, 45), at least now + 45,
\* also for a retry-after of 0 and for a response without the header; for a
\* 429 response with a retry-after header until = now + retry-after exactly.
C17_CapacityFloor ==
    [][(/\ pc \in {"request", "respond"}
        /\ Len(pool_calls') = Len(pool_calls) + 1
        /\ pool_calls'[Len(pool_calls')].op = "mark_rate_limited") =>
           LET e == IF pc = "respond" THEN Unwrap(hs.api_result)
                    ELSE calls'[Len(calls')].result
               mark == pool_calls'[Len(pool_calls')]
               reported == IF IsSome(e.retry_after) THEN Unwrap(e.retry_after) ELSE 0
               stored == IF mark.index \notin DOMAIN rate_limits' THEN {}
                         ELSE IF mark.family = Claude THEN rate_limits'[mark.index].claude
                         ELSE rate_limits'[mark.index].gemini
           IN  \E info \in stored :
                   /\ e.status \in {503, 529} =>
                          /\ info.until >= now + 45
                          /\ info.until = now + Max(reported, 45)
                   /\ (e.status = 429 /\ IsSome(e.retry_after)) =>
                          info.until = now + reported]_vars

\* C17 witness: a finished request whose first call was answered 529 with a
\* retry-after of 0, and the called account is marked until now + 45.
C17_Witness ==
    /\ pc = "done"
    /\ calls # << >>
    /\ calls[1].result.status = 529
    /\ calls[1].result.retry_after = Some(0)
    /\ \E info \in EntryOf(calls[1].account, family_of(calls[1].model)) :
           info.until = now + CapacityFloorSecs

\* The refresh token the Token Store holds for an email.
StoredRefreshTokens(email) ==
    {s.accounts[q].refresh_token :
        s \in storage, q \in {r \in 1 .. Len(Unwrap(storage).accounts) :
                                 Unwrap(storage).accounts[r].email = email}}

\* C18: refresh-token rotation.  After every lease the in-memory account and
\* the Token Store record of its email hold the same refresh token: the new
\* one when the token endpoint rotated it during the lease's refresh, the
\* original one otherwise; the leased copy carries that token too.
C18_RotationPersisted ==
    /\ \A p \in 1 .. Len(accounts) :
           StoredRefreshTokens(accounts[p].email) = {accounts[p].refresh_token}
    /\ \A a \in lease.ret :
           /\ a.refresh_token = acct(accounts, a.index).refresh_token
           /\ StoredRefreshTokens(a.email) = {a.refresh_token}

\* The records of the Token Store (none when the manager has no store).
StoredRecords == IF IsSome(storage) THEN Unwrap(storage).accounts ELSE << >>

UniqueEmails(records) ==
    \A p, q \in 1 .. Len(records) : records[p].email = records[q].email => p = q

HasEmail(records, email) == \E p \in 1 .. Len(records) : records[p].email = email

\* C19: email is a unique key.  No two stored records and no two pool
\* accounts ever share an email; add_account with an email that exists
\* updates that record's refresh token in place and adds no record (a new
\* email adds exactly one); remove_account(email) returns true exactly when
\* a record with that email existed, and afterwards none exists.
C19_EmailUnique ==
    /\ [](UniqueEmails(StoredRecords) /\ UniqueEmails(accounts))
    /\ [][(admin'.op = "add_account" /\ admin'.ok) =>
              /\ \A p \in 1 .. Len(accounts) :
                     /\ accounts'[p].email = accounts[p].email
                     /\ accounts[p].email = admin'.email =>
                            accounts'[p].refresh_token = admin'.refresh_token
              /\ \A p \in 1 .. Len(StoredRecords) :
                     /\ StoredRecords'[p].email = StoredRecords[p].email
                     /\ StoredRecords[p].email = admin'.email =>
                            StoredRecords'[p].refresh_token = admin'.refresh_token
              /\ Len(accounts') = IF HasEmail(accounts, admin'.email)
                                  THEN Len(accounts) ELSE Len(accounts) + 1
              /\ IsSome(storage) =>
                     Len(StoredRecords') = IF HasEmail(StoredRecords, admin'.email)
                                           THEN Len(StoredRecords)
                                           ELSE Len(StoredRecords) + 1
              /\ HasEmail(accounts', admin'.email)]_vars
    /\ [][(admin'.op = "remove_account" /\ admin'.ok) =>
              /\ admin'.ret <=> (HasEmail(StoredRecords, admin'.email)
                                 \/ HasEmail(accounts, admin'.email))
              /\ ~HasEmail(StoredRecords', admin'.email)
              /\ ~HasEmail(accounts', admin'.email)]_vars

\* C19 witness: add_account for an email the pool already held has updated
\* the record in place (it is not the last one), in the pool and in the store.
C19_Witness ==
    /\ admin.op = "add_account" /\ admin.ok
    /\ \E p \in 1 .. Len(accounts) - 1 :
           /\ accounts[p].email = admin.email
           /\ accounts[p].refresh_token = "rt_added"
           /\ accounts[p + 1].refresh_token = "rt_old"
           /\ StoredRecords[p].refresh_token = "rt_added"

\* The index of the pool account with the email (empty if there is none).
IndexOf(accs, email) == {accs[p].index : p \in {q \in 1 .. Len(accs) : accs[q].email = email}}

\* C20: index compaction.  Every account's index is its position in the
\* pool, after any sequence of add_account, remove_account and reload; the
\* index of an account changes only in a remove_account step that removed an
\* account at a lower position.
C20_IndexCompaction ==
    /\ [](\A p \in 1 .. Len(accounts) : accounts[p].index = p - 1)
    /\ [][\A email \in Emails :
              (/\ IndexOf(accounts, email) # {}
               /\ IndexOf(accounts', email) # {}
               /\ IndexOf(accounts', email) # IndexOf(accounts, email)) =>
                  /\ admin'.op = "remove_account"
                  /\ admin'.ret
                  /\ \E i \in IndexOf(accounts, admin'.email), j \in IndexOf(accounts, email) :
                         i < j]_vars

\* C20 witness: remove_account has removed an account and an account that
\* stood behind it has moved down to the freed position.
C20_Witness ==
    /\ admin.op = "remove_account" /\ admin.ret
    /\ \E p \in 1 .. Len(accounts) :
           /\ accounts[p].index = p - 1
           /\ accounts[p].email = p
           /\ admin.email < p

\* C21: non-retryable upstream errors propagate immediately.  When the first
\* upstream call of a /v1/messages request failed with an error that is
\* neither RATE_LIMITED nor CAPACITY_ERROR (also one whose text holds the
\* digits 429, 503 or 529), the finished request ran no fallback strategy
\* (every later call is a repeat of the first, as the session-repair retry
\* is), marked no account in the ledger unless a call was answered
\* RATE_LIMITED or CAPACITY_ERROR, and, having made no other call, returned
\* the error.
C21_NonRetryablePropagates ==
    (/\ req.endpoint = "messages"
     /\ pc = "done"
     /\ calls # << >>
     /\ ~calls[1].result.ok
     /\ ~is_rate_or_capacity(calls[1].result)) =>
        /\ \A j \in 2 .. Len(calls) : SameCall(1, j)
        /\ (\A j \in 1 .. Len(calls) : ~is_rate_or_capacity(calls[j].result)) =>
               \A i \in 1 .. Len(pool_calls) : pool_calls[i].op # "mark_rate_limited"
        /\ Len(calls) = 1 => ~Succeeded

(***************************************************************************)
(* Claims about the body of the stream                                     *)
(***************************************************************************)
\* The upstream stream of the request was read to its final chunk.
StreamCompleted ==
    /\ Streaming /\ pc = "done"
    /\ hs.seen # << >>
    /\ hs.seen[Len(hs.seen)].ok
    /\ hs.seen[Len(hs.seen)].chunk.done

ToolChunksSeen == {i \in 1 .. Len(hs.seen) : hs.seen[i].ok /\ hs.seen[i].chunk.is_tool_use}

\* C22: on every successfully completed stream, primary or spoofed, the
\* last two events are message_delta and then message_stop, and the
\* stop_reason of that message_delta is "tool_use" if at least one upstream
\* chunk with is_tool_use was seen in the stream and "end_turn" otherwise.
C22_StopReason ==
    StreamCompleted =>
        LET n == Len(events)
        IN  /\ n >= 2
            /\ EventIs(n - 1, "message_delta")
            /\ EventIs(n, "message_stop")
            /\ events[n - 1].info = IF ToolChunksSeen # {} THEN "tool_use" ELSE "end_turn"

\* C22 witness: a stream served by the spoof model after the primary call
\* was rate limited (Strategy 1) saw a tool_use chunk followed by text and
\* completed with stop_reason "tool_use".
C22_Witness ==
    /\ StreamCompleted
    /\ Len(calls) = 2
    /\ calls[2].model # calls[1].model
    /\ Len(hs.seen) = 3
    /\ hs.seen[1].chunk.is_tool_use
    /\ ~hs.seen[2].chunk.is_tool_use
    /\ events[Len(events) - 1].info = "tool_use"

\* The content blocks started among the events so far and not yet stopped.
OpenBlocks ==
    {i \in 1 .. Len(events) :
        /\ EventIs(i, "content_block_start")
        /\ StopsOf(events[i].index, i + 1, Len(events)) = {}}

\* C23: tool-use chunks are handled atomically in the stream.  A step of the
\* body loop that reads an upstream chunk with is_tool_use appends exactly
\* five events: content_block_stop of the open text block, content_block_start
\* of a tool_use block at the next index whose content block carries the
\* tool's type, id and name and input {}, one input_json_delta at that index
\* whose partial_json parses to exactly the input of the tool, the
\* content_block_stop of the tool_use block, and content_block_start of a
\* fresh text block at the index after it.
C23_ToolUseAtomic ==
    [][(/\ pc = "body"
        /\ Len(hs'.seen) = Len(hs.seen) + 1
        /\ hs'.seen[Len(hs'.seen)].ok
        /\ hs'.seen[Len(hs'.seen)].chunk.is_tool_use) =>
           LET k == Len(events)
               chunk == hs'.seen[Len(hs'.seen)].chunk
           IN  /\ Len(events') = k + 5
               /\ SubSeq(events', 1, k) = events
               /\ \E open \in OpenBlocks, tool \in serde_from_str(chunk.delta) :
                      LET cur == events[open].index
                      IN  /\ OpenBlocks = {open}
                          /\ events[open].info = "text"
                          /\ events'[k + 1] = Ev("content_block_stop", cur, "")
                          /\ events'[k + 2].type = "content_block_start"
                          /\ events'[k + 2].index = cur + 1
                          /\ events'[k + 2].info = "tool_use"
                          /\ \E block \in serde_from_str(events'[k + 2].data) :
                                 /\ block.fields["input"] = JObject(<< >>)
                                 /\ \A key \in {"type", "id", "name"} :
                                        block.fields[key] = tool.fields[key]
                          /\ events'[k + 3].type = "content_block_delta"
                          /\ events'[k + 3].index = cur + 1
                          /\ events'[k + 3].info = "input_json_delta"
                          /\ serde_from_str(events'[k + 3].data) = Some(tool.fields["input"])
                          /\ events'[k + 4] = Ev("content_block_stop", cur + 1, "")
                          /\ events'[k + 5] = Ev("content_block_start", cur + 2, "text")]_vars

\* C23 witness: a stream has read two tool_use chunks, and the second one's
\* input_json_delta carries the tool's one-argument input.
C23_Witness ==
    /\ Streaming
    /\ Cardinality(ToolChunksSeen) = 2
    /\ events[Len(events) - 2].info = "input_json_delta"
    /\ serde_from_str(events[Len(events) - 2].data) = Some(JObject([path |-> JScalar("\"a\"")]))

(***************************************************************************)
(* Claims about the client's chunk stream                                  *)
(***************************************************************************)
DoneRead == \E i \in 1 .. Len(lines_read) : lines_read[i] = DoneLine

ContentChunks(items) == {i \in 1 .. Len(items) : items[i].ok /\ ~items[i].chunk.done}

DoneChunks(items) == {i \in 1 .. Len(items) : items[i].ok /\ items[i].chunk.done}

\* C24: upstream stream termination.  Once a line data: [DONE] has been read
\* from the body the chunk stream yields no further content chunk, whatever
\* follows the line; and when the body has ended without a transport error
\* the stream has yielded exactly one chunk with done = true, as its last.
C24_DoneTerminates ==
    /\ [][DoneRead =>
              Cardinality(ContentChunks(output_stream')) =
                  Cardinality(ContentChunks(output_stream))]_vars
    /\ [](spc = "ended" =>
              DoneChunks(output_stream) = {Len(output_stream)})

(***************************************************************************)
(* Claims about concurrent leases                                          *)
(***************************************************************************)
\* Request j presents the token that the earlier request i presented.
SameToken(i, j) ==
    /\ i < j
    /\ refresh_log[i].index = refresh_log[j].index
    /\ refresh_log[i].serial = refresh_log[j].serial

\* C25 as stated: no duplicate refresh under concurrency.  When lease calls
\* run concurrently, at most one refresh request is issued for an expired
\* token.
C25_AtMostOneRequest ==
    \A i, j \in 1 .. Len(refresh_log) : ~SameToken(i, j)

\* C25, amended: at most one refresh request is in flight at any time, and
\* a token that has been presented in a refresh request is presented again
\* only after that request failed; a lease that returns an account whose
\* token another lease has refreshed returns the refreshed token.
C25_NoConcurrentRefresh ==
    /\ Cardinality({i \in 1 .. Len(refresh_log) : refresh_log[i].status = "pending"}) <= 1
    /\ \A i, j \in 1 .. Len(refresh_log) :
           SameToken(i, j) => refresh_log[i].status = "err"
    /\ \A t \in DOMAIN tasks :
           \A a \in tasks[t].ret :
               TokenSerial(a.index) > 0 => a.access_token = "at_new"

\* C25 witness: a task called its lease while another task held the lock,
\* and it returned the account that the other task had refreshed, with the
\* refreshed token and without a refresh request of its own for it.
C25_Witness ==
    \E t \in DOMAIN tasks, i \in 1 .. Len(refresh_log) :
        /\ tasks[t].blocked
        /\ tasks[t].pc = "done"
        /\ refresh_log[i].task # t
        /\ refresh_log[i].status = "ok"
        /\ \E a \in tasks[t].ret :
               /\ a.index = refresh_log[i].index
               /\ a.access_token = "at_new"
        /\ \A j \in 1 .. Len(refresh_log) :
               refresh_log[j].task = t => refresh_log[j].index # refresh_log[i].index

\* C26: round-robin lease.  get_available_account_for_model scans the indices
\* (last_used_index + 1) mod n, (last_used_index + 2) mod n, ... once around
\* the pool.  The account it returns is not rate limited for the family and
\* its token was fresh (the account is returned as it was) or has just been
\* refreshed; every account earlier in that order was rate limited for the
\* family or needed a refresh; last_used_index becomes the returned index.
\* When it returns None, last_used_index keeps its value and every account
\* of the pool (none, in the empty pool) was rate limited or needed a refresh.
C26_RoundRobinLease ==
    [][lease'.op = "for_model" =>
        LET n == Len(accounts)
            F == lease'.family
            limited(i) == /\ i \in DOMAIN rate_limits
                          /\ IsSome(get(rate_limits[i], F))
                          /\ Unwrap(get(rate_limits[i], F)).until > now
            stale(i) == now + RefreshBufferSecs >= accounts[i + 1].expires_at
            order(i) == CHOOSE k \in 1 .. n : (last_used_index + k) % n = i
        IN  /\ \A a \in lease'.ret :
                /\ a.index \in 0 .. n - 1
                /\ a = accounts'[a.index + 1]
                /\ last_used_index' = a.index
                /\ ~limited(a.index)
                /\ IF stale(a.index)
                   THEN a.access_token = "at_new" /\ a.expires_at >= now
                   ELSE a = accounts[a.index + 1]
                /\ \A j \in 0 .. n - 1 :
                       order(j) < order(a.index) =>
                           /\ limited(j) \/ stale(j)
                           /\ accounts'[j + 1] = accounts[j + 1]
            /\ lease'.ret = None =>
                /\ last_used_index' = last_used_index
                /\ accounts' = accounts
                /\ \A j \in 0 .. n - 1 : limited(j) \/ stale(j)
    ]_vars

\* C26 witness: a lease for a family returned the account at last_used_index
\* while the other account of the pool holds an active entry for that family:
\* the scan went past the limited account.
C26_Witness ==
    /\ lease.op = "for_model"
    /\ Len(accounts) = NumAccounts
    /\ \E a \in lease.ret :
           /\ a.index = last_used_index
           /\ \E j \in DOMAIN rate_limits :
                  /\ j # a.index
                  /\ is_rate_limited(rate_limits[j], lease.family, now)

\* The ledger entry of account index i for family G in the ledger rl, if any.
LedgerEntry(rl, i, G) == IF i \in DOMAIN rl THEN get(rl[i], G) ELSE None

\* Every account index other than i has the same entries in both ledgers.
SameElsewhere(rl_before, rl_after, i) ==
    \A j \in (DOMAIN rl_before \cup DOMAIN rl_after) \ {i} :
        /\ j \in DOMAIN rl_before
        /\ j \in DOMAIN rl_after
        /\ rl_after[j] = rl_before[j]

\* C27: mark_rate_limited(i, F, u) sets the entry (i, F) to until = u,
\* whatever the entry held before (also a later time), with
\* consecutive_count one more than the count the entry had (1 when there was
\* no entry); the entry of the other family of account i and the entries of
\* all other accounts stay as they were.
C27_MarkSetsEntry ==
    [][admin'.op = "mark_rate_limited" =>
        LET i == admin'.index
            F == admin'.family
            before == LedgerEntry(rate_limits, i, F)
        IN  /\ LedgerEntry(rate_limits', i, F) =
                   Some([until |-> admin'.until,
                         consecutive_count |->
                             IF before = None THEN 1
                             ELSE Unwrap(before).consecutive_count + 1])
            /\ LedgerEntry(rate_limits', i, OtherFamily(F)) =
                   LedgerEntry(rate_limits, i, OtherFamily(F))
            /\ SameElsewhere(rate_limits, rate_limits', i)
    ]_vars

\* C27 witness: the last call marked an entry that was already there (its
\* count is 2 now) to the time that ends 30 seconds from now.
C27_Witness ==
    /\ admin.op = "mark_rate_limited"
    /\ \E e \in LedgerEntry(rate_limits, admin.index, admin.family) :
           /\ e.consecutive_count = 2
           /\ e.until = admin.until
           /\ e.until = now + 30

\* C28: clear_rate_limit(i, F) removes the entry (i, F); the outer entry of
\* account i is gone afterwards exactly when the other family has no entry;
\* the other family's entry of i and the entries of all other accounts stay
\* as they were; without an outer entry for i the call changes nothing; and
\* a mark that follows the clear of (i, F) starts consecutive_count at 1.
C28_ClearRemovesEntry ==
    /\ [][admin'.op = "clear_rate_limit" =>
            LET i == admin'.index
                F == admin'.family
            IN  /\ LedgerEntry(rate_limits', i, F) = None
                /\ LedgerEntry(rate_limits', i, OtherFamily(F)) =
                       LedgerEntry(rate_limits, i, OtherFamily(F))
                /\ i \notin DOMAIN rate_limits' <=>
                       LedgerEntry(rate_limits, i, OtherFamily(F)) = None
                /\ SameElsewhere(rate_limits, rate_limits', i)
                /\ i \notin DOMAIN rate_limits => rate_limits' = rate_limits
       ]_vars
    /\ [][(/\ admin.op = "clear_rate_limit"
           /\ admin'.op = "mark_rate_limited"
           /\ admin'.index = admin.index
           /\ admin'.family = admin.family) =>
            Unwrap(LedgerEntry(rate_limits', admin'.index, admin'.family)).consecutive_count = 1
       ]_vars

\* C28 witness: the last call cleared (i, F) and the outer entry of account i
\* is still there, holding the entry of the other family.
C28_Witness ==
    /\ admin.op = "clear_rate_limit"
    /\ LedgerEntry(rate_limits, admin.index, admin.family) = None
    /\ IsSome(LedgerEntry(rate_limits, admin.index, OtherFamily(admin.family)))

\* C29: get_min_wait_time_for_model over a pool with accounts returns None
\* if and only if some account of the pool has no entry for the model's
\* family or an expired one; otherwise it returns the least until - now over
\* the entries for that family of the accounts of the pool, whatever add,
\* remove, mark and clear calls came before.
C29_MinWaitOverPool ==
    (admin.op = "get_min_wait_time_for_model" /\ Len(accounts) > 0) =>
        LET F == from_model_id(admin.model_id)
            entries == {e \in UNION {LedgerEntry(rate_limits, accounts[p].index, F) :
                                        p \in 1 .. Len(accounts)} : TRUE}
            available ==
                \E p \in 1 .. Len(accounts) :
                    \A e \in LedgerEntry(rate_limits, accounts[p].index, F) : e.until <= now
        IN  IF available THEN admin.ret = None
            ELSE \E w \in admin.ret :
                     /\ \E e \in entries : e.until - now = w
                     /\ \A e \in entries : e.until - now >= w

\* The primary call of a /v1/messages request was answered with a rate-limit
\* or capacity error.
PrimaryRateLimited ==
    /\ req.endpoint = "messages"
    /\ Len(calls) >= 1
    /\ ~calls[1].result.ok
    /\ calls[1].result.prefix \in {"RATE_LIMITED", "CAPACITY_ERROR"}

C31_DualQuotaHeaders ==
    \A i \in 1 .. Len(calls) :
        calls[i].style = "gemini-cli" =>
            /\ is_gemini(calls[i].model)
            /\ \A j \in 1 .. i - 1 : ~calls[j].result.ok
            /\ calls[i].model = calls[1].model
            /\ calls[i].account = calls[1].account
            /\ calls[i].headers = "gemini-cli"

\* C32: Strategy 2 of /v1/messages.  The handler reaches the rotation only
\* after every earlier upstream call of the request failed, Strategy 1
\* included when the model has a spoof model; an upstream request sent by the
\* rotation goes to an account other than the account A of the primary call,
\* whatever retry-after value A was marked with; and when every other account
\* of the pool is rate limited, no further upstream request is sent and the
\* original error is what the handler answers with.
C32_RotationLeavesAccount ==
    [][pc = "strategy_2" =>
        LET A == calls[1].account
            M == calls[1].model
            others_limited ==
                \A p \in 1 .. Len(accounts) :
                    accounts[p].index # A =>
                        /\ accounts[p].index \in DOMAIN rate_limits
                        /\ \E F \in ModelFamily :
                               is_rate_limited(rate_limits[accounts[p].index], F, now)
        IN  /\ \A j \in 1 .. Len(calls) : ~calls[j].result.ok
            /\ IsSome(get_spoof_model(M)) =>
                   \E j \in 2 .. Len(calls) : calls[j].model = Unwrap(get_spoof_model(M))
            /\ Len(calls') > Len(calls) => calls'[Len(calls')].account # A
            /\ others_limited =>
                   /\ calls' = calls
                   /\ hs'.api_result = Some(calls[1].result)
    ]_vars

\* The response to the request the client sent, once the call has returned.
Answered == IsSome(cresult) /\ Len(requests) = 1

\* C33: upstream status classification.  For a response whose status is not
\* 2xx the call returns an error and no chunk stream.  429 gives RATE_LIMITED
\* with the seconds of the Retry-After header when the header is there and
\* numeric, else the number found in the body text, else 60; 503 and 529 give
\* CAPACITY_ERROR with the header's seconds, else 45; 403 with "generateChat"
\* in the body gives the IAM-denied error; every other status gives the
\* generic API error.
C33_StatusClassification ==
    Answered =>
        LET r == requests[1].response
            e == Unwrap(cresult)
            header == CASE r.retry_after = Some("0") -> Some(0)
                        [] r.retry_after = Some("20") -> Some(20)
                        [] OTHER -> None
            in_body == CASE r.text = "Retry after 30s" -> Some(30)
                         [] r.text = "Quota exceeded, try again in 5 seconds" -> Some(5)
                         [] OTHER -> None
            first(o1, o2, default) == IF IsSome(o1) THEN Unwrap(o1)
                                      ELSE IF IsSome(o2) THEN Unwrap(o2) ELSE default
        IN  IF r.status \in 200 .. 299 THEN e.ok
            ELSE /\ ~e.ok
                 /\ CASE r.status = 429 ->
                             e.prefix = "RATE_LIMITED" /\ e.secs = first(header, in_body, 60)
                      [] r.status \in {503, 529} ->
                             e.prefix = "CAPACITY_ERROR" /\ e.secs = first(header, None, 45)
                      [] r.status = 403 /\ r.text = "Permission denied on generateChat" ->
                             e.prefix = "IAM_PERMISSION_DENIED"
                      [] OTHER -> e.prefix = "API error"

\* C33 witness: a 429 whose Retry-After header is not a number and whose
\* body names 30 seconds was classified RATE_LIMITED with 30 seconds.
C33_Witness ==
    /\ Answered
    /\ requests[1].response =
           [status |-> 429, retry_after |-> Some("soon"), text |-> "Retry after 30s"]
    /\ Unwrap(cresult).prefix = "RATE_LIMITED"
    /\ Unwrap(cresult).secs = 30

\* C34: endpoint failover.  The endpoint index of the client stays within
\* the endpoint list, and when a content request is answered with a 5xx
\* status other than 503 and 529 the call returns the error only after the
\* request was also sent to the last endpoint, each retry going to the next
\* endpoint of the order daily-sandbox, autopush-sandbox, production.
C34_EndpointFailover ==
    /\ \A c \in http_client : c.endpoint_index \in 0 .. Len(ANTIGRAVITY_ENDPOINTS) - 1
    /\ (/\ IsSome(cresult)
        /\ Len(requests) >= 1
        /\ requests[Len(requests)].response.status \in (500 .. 599) \ {503, 529}) =>
            /\ requests[Len(requests)].endpoint =
                   ANTIGRAVITY_ENDPOINTS[Len(ANTIGRAVITY_ENDPOINTS)]
            /\ \A i \in 1 .. Len(requests) - 1 :
                   \E k \in 1 .. Len(ANTIGRAVITY_ENDPOINTS) - 1 :
                       /\ requests[i].endpoint = ANTIGRAVITY_ENDPOINTS[k]
                       /\ requests[i + 1].endpoint = ANTIGRAVITY_ENDPOINTS[k + 1]

\* C40: for a Claude thinking model and any u32 thinking budget b the call
\* builds a request body (the addition does not overflow) whose
\* maxOutputTokens is strictly greater than thinkingBudget: 8192 when
\* b < 8192, and b + 8192 otherwise, not wrapped around.
C40_MaxTokensAboveBudget ==
    /\ \A e \in cresult : e.prefix # "panic"
    /\ \A i \in 1 .. Len(requests) :
           LET g == requests[i].generationConfig
           IN  \A b \in g.thinkingBudget :
                   /\ ~u32_le(g.maxOutputTokens, b)
                   /\ IF b.hi = 0 /\ b.lo < 8192
                      THEN g.maxOutputTokens = u32(0, 8192)
                      ELSE /\ g.maxOutputTokens.lo = (b.lo + 8192) % U16
                           /\ g.maxOutputTokens.hi =
                                  b.hi + (IF b.lo + 8192 >= U16 THEN 1 ELSE 0)

\* C35: deadlock freedom of the account pool.  No two concurrent calls each
\* hold one of the locks accounts and rate_limits while waiting for the lock
\* the other holds, so that every call can go on to its return.
C35_NoCircularWait ==
    \A t1, t2 \in TaskIds :
        ~(/\ t1 # t2
          /\ accounts_lock = Some(t1)
          /\ tasks[t1].pc = "rate_limits_read"
          /\ rate_limits_lock.writer = Some(t2)
          /\ tasks[t2].pc = "accounts_read")

\* C36: ledger entries stay with their account across removals.  After a
\* remove_account that removed an account, every account left in the pool
\* (identified by its email) holds for each family exactly the entry it held
\* before the removal: the same until if it had one, none if it had none.
C36_EntriesFollowAccounts ==
    [][(admin'.op = "remove_account" /\ admin'.ret) =>
        \A p \in 1 .. Len(accounts), q \in 1 .. Len(accounts') :
            accounts[p].email = accounts'[q].email =>
                \A F \in ModelFamily :
                    LedgerEntry(rate_limits', accounts'[q].index, F) =
                        LedgerEntry(rate_limits, accounts[p].index, F)
    ]_vars

\* The content blocks started among the first n events and not stopped among
\* them, as positions of their content_block_start.
OpenBlocksAt(n) ==
    {j \in 1 .. n :
        /\ EventIs(j, "content_block_start")
        /\ StopsOf(events[j].index, j + 1, n) = {}}

TerminalEvents ==
    {i \in 1 .. Len(events) : EventIs(i, "message_stop") \/ EventIs(i, "error")}

\* C38: every streaming request eventually reaches a terminal event.  Once
\* the streaming handler has started, the acquisition loop is eventually left
\* and the handler eventually returns with exactly one terminal event
\* (message_stop or error) in the stream.
C38_StreamTerminates ==
    Streaming ~> (pc = "done" /\ Cardinality(TerminalEvents) = 1)

\* C38 witness: a stream that went round the acquisition loop (it reported
\* a wait and slept) and then finished with message_stop.
C38_Witness ==
    /\ Streaming
    /\ pc = "done"
    /\ now > StartNow
    /\ EventIs(Len(events), "message_stop")
    /\ Cardinality(TerminalEvents) = 1

\* C39: family consistency.  In a request to /v1/messages every wait-time
\* lookup of the acquisition loop is made for the family of the model the
\* request id maps to (map_anthropic_to_antigravity), which is the model sent
\* upstream, and every ledger mark or clear is made for the family of a model
\* that was sent upstream on the marked account; this includes ids containing
\* "haiku" and unknown ids.
C39_FamilyConsistent ==
    (pc # "idle" /\ req.endpoint = "messages") =>
        \A i \in 1 .. Len(pool_calls) :
            /\ pool_calls[i].op = "get_min_wait_time_for_model" =>
                   pool_calls[i].family = family_of(map_anthropic_to_antigravity(req.model))
            /\ pool_calls[i].op \in {"mark_rate_limited", "clear_rate_limit"} =>
                   \E k \in 1 .. Len(calls) :
                       /\ calls[k].account = pool_calls[i].index
                       /\ family_of(calls[k].model) = pool_calls[i].family
====
